---- MODULE Spec2Model ----
(***************************************************************************)
(* voice2minutes: the action tracker (app/utils/db.py, app/services/       *)
(* tracker.py, app/routes.py) and the deadline resolver                    *)
(* (app/services/deadline_parser.py) as a state machine.                   *)
(*                                                                         *)
(* Time.  The wall clock `now` is a UTC instant counted in ticks, the      *)
(* finest unit Python's datetime carries.  SQLite's CURRENT_TIMESTAMP and  *)
(* datetime(...) have a resolution of one second (TicksPerSec ticks) and   *)
(* are UTC; Python's datetime.now() is the local naive time now + tz.      *)
(* A day is SecsPerDay seconds.                                            *)
(*                                                                         *)
(* Store.  `actions` and `history` are the COMMITTED contents of the       *)
(* tables actions and action_history.  A connection's uncommitted writes   *)
(* live in conn[c].tx until its commit; `writer` is the connection that    *)
(* holds SQLite's RESERVED lock (0: none).                                 *)
(* `meetings` is the committed content of the table meetings, whose        *)
(* column filename is UNIQUE.                                              *)
(*                                                                         *)
(* Functions.  `inp` holds the arguments a function of the deadline        *)
(* resolver or of the transcript services is called with, `out` what it    *)
(* returned (NULL: not called yet).                                        *)
(***************************************************************************)
EXTENDS Integers, Sequences, FiniteSets, TLC

VARIABLES now, tz, actions, nextActionId, history, writer, conn, ret, inp, out,
          meetings

vars == <<now, tz, actions, nextActionId, history, writer, conn, ret, inp, out, meetings>>

(* ------------------------------ bounds --------------------------------- *)
MaxTime == 4
TicksPerSec == 2
SecsPerDay == 1
MaxActions == 2
MaxHist == 2
MaxWords == 3
MaxT == 3
MaxSegs == 2
MaxTurns == 2
MaxMerge == 3
MaxGap == 2
MaxPieces == 3
MaxScored == 2
MaxDetect == 3
MaxNames == 2
MaxEntities == 2
MaxSegWords == 2
TzSecs == 1

(* ------------------------- program constants --------------------------- *)
\* probabilities are counted in hundredths
IsActionThreshold == 50
ActionThreshold == 60
MinSentenceLen == 10
KeepConfidence == 70
SpacyConfidence == 80
RegexConfidence == 60

DayTicks == SecsPerDay * TicksPerSec

NULL == << >>
Some(x) == <<x>>
Val(o) == o[1]

Statuses == {"open", "completed", "in_progress"}
NoteValues == {NULL, Some("done")}
\* the notes of a caller that passes none
NoNotes == {NULL}
ChangedBy == {NULL}
ActionIds == 1..MaxActions
DaysOld == {0, 1}
Callers == {1, 2}
TzOffsets == {0 - TzSecs * TicksPerSec, 0, TzSecs * TicksPerSec}

(* ------------------------------ clocks --------------------------------- *)
\* datetime.now(): the local naive time, to the tick
PyNow == now + tz

\* SQLite datetime(x): x to the second, its sub-second part dropped
SqlDatetime(t) == t \div TicksPerSec

\* SQLite CURRENT_TIMESTAMP / datetime('now'): UTC, to the second
SqlNow == SqlDatetime(now)

\* SQLite datetime('now', '-N days')
SqlNowMinusDays(n) == SqlNow - n * SecsPerDay

\* a NULL operand makes an SQL comparison NULL, which a WHERE clause rejects
SqlLess(a, b) == a # NULL /\ b # NULL /\ Val(a) < Val(b)

(* --------------------------- deadline resolver ------------------------- *)
(* A text is a sequence of lower-case word tokens; "." "," ";" ":" are     *)
(* punctuation tokens written directly after the preceding word.  The      *)
(* code's substring tests (`indicator in text_lower`) are tests for a      *)
(* token, or a run of tokens, of the text: no word of the vocabulary       *)
(* contains another one.                                                   *)
Terminators == {".", ",", ";"}

HasPhrase(toks, ws) ==
    \E i \in 1..(Len(toks) - Len(ws) + 1) :
        \A j \in 1..Len(ws) : toks[i + j - 1] = ws[j]

\* self.urgency_indicators, in the dictionary's insertion order
UrgencyIndicators ==
    << [words |-> <<"asap">>, days |-> 0],
       [words |-> <<"urgent">>, days |-> 1],
       [words |-> <<"high", "priority">>, days |-> 2],
       [words |-> <<"soon">>, days |-> 7],
       [words |-> <<"eventually">>, days |-> 30] >>

\* the first indicator, in dictionary order, that occurs in the text; 0: none
FirstIndicator(toks) ==
    LET hits == {k \in 1..Len(UrgencyIndicators) :
                    HasPhrase(toks, UrgencyIndicators[k].words)}
    IN  IF hits = {} THEN 0 ELSE CHOOSE k \in hits : \A m \in hits : k <= m

Numerals == {"2"}
NumVal(w) == IF w = "2" THEN 2 ELSE 0
DayUnits == {"day", "days"}
WeekUnits == {"week", "weeks"}
MonthUnits == {"month", "months"}

\* re.search(r'<kw>\s+(\d+)\s+(days?|weeks?|months?)'): the leftmost match
CountMatch(toks, kw) ==
    LET hits == {i \in 1..(Len(toks) - 2) :
                    /\ toks[i] = kw
                    /\ toks[i + 1] \in Numerals
                    /\ toks[i + 2] \in DayUnits \cup WeekUnits \cup MonthUnits}
    IN  IF hits = {} THEN 0 ELSE CHOOSE i \in hits : \A m \in hits : i <= m

CountOffsetDays(toks, i) ==
    LET n == NumVal(toks[i + 1])
        unit == toks[i + 2]
    IN  IF unit \in DayUnits THEN n
        ELSE IF unit \in WeekUnits THEN 7 * n
        ELSE 30 * n

\* The calendar.  Day 0 is 1 January of the first of Years, a Monday; a
\* local time pynow lies on day pynow \div DayTicks.
Years == 2024..2025
EpochYear == CHOOSE y \in Years : \A z \in Years : y <= z
CalYears == (EpochYear - 1)..(EpochYear + Cardinality(Years))

IsLeap(y) == (y % 4 = 0 /\ y % 100 # 0) \/ y % 400 = 0
DaysInMonth(y, m) ==
    IF m = 2 THEN (IF IsLeap(y) THEN 29 ELSE 28)
    ELSE IF m \in {4, 6, 9, 11} THEN 30 ELSE 31
DaysInYear(y) == IF IsLeap(y) THEN 366 ELSE 365

\* the day number of 1 January of year y
RECURSIVE YearStart(_)
YearStart(y) ==
    IF y = EpochYear THEN 0
    ELSE IF y > EpochYear THEN YearStart(y - 1) + DaysInYear(y - 1)
    ELSE YearStart(y + 1) - DaysInYear(y)

\* the day number of the first day of month m of year y (m = 13: of the
\* next year)
RECURSIVE MonthStart(_, _)
MonthStart(y, m) ==
    IF m = 1 THEN YearStart(y) ELSE MonthStart(y, m - 1) + DaysInMonth(y, m - 1)

\* datetime(year, month, day) as a day number, and back
DayNumber(year, month, day) == MonthStart(year, month) + day - 1

YearOf(n) == CHOOSE y \in CalYears : YearStart(y) <= n /\ n < YearStart(y + 1)

MonthOf(n, y) == CHOOSE m \in 1..12 : MonthStart(y, m) <= n /\ n < MonthStart(y, m + 1)

DateInMonth(n, y, m) == [year |-> y, month |-> m, day |-> n - MonthStart(y, m) + 1]

DateInYear(n, y) == DateInMonth(n, y, MonthOf(n, y))

DateOf(n) == DateInYear(n, YearOf(n))

DayOf(pynow) == pynow \div DayTicks

\* now.weekday(): Monday is 0
Weekday(pynow) == DayOf(pynow) % 7

\* datetime(now.year + 1, 1, 1) in December, else
\* datetime(now.year, now.month + 1, 1), for the date d of now
FirstOfNextMonth(d) ==
    IF d.month = 12 THEN DayNumber(d.year + 1, 1, 1)
    ELSE DayNumber(d.year, d.month + 1, 1)

\* the first day of the next month - timedelta(days=1): midnight
EndOfMonth(pynow) == (FirstOfNextMonth(DateOf(DayOf(pynow))) - 1) * DayTicks

\* DeadlineExtractor.parse_relative_date, from the local time `pynow`
parse_relative_date(toks, pynow) ==
    LET ind == FirstIndicator(toks)
        inM == CountMatch(toks, "in")
        withinM == CountMatch(toks, "within")
    IN  IF ind # 0 THEN Some(pynow + UrgencyIndicators[ind].days * DayTicks)
        ELSE IF HasPhrase(toks, <<"today">>) THEN Some(pynow)
        ELSE IF HasPhrase(toks, <<"tomorrow">>) THEN Some(pynow + DayTicks)
        ELSE IF HasPhrase(toks, <<"yesterday">>) THEN Some(pynow - DayTicks)
        ELSE IF HasPhrase(toks, <<"next", "week">>) THEN Some(pynow + 7 * DayTicks)
        ELSE IF HasPhrase(toks, <<"this", "week">>)
             THEN Some(pynow + ((4 - Weekday(pynow)) % 7) * DayTicks)
        ELSE IF HasPhrase(toks, <<"next", "month">>) THEN Some(pynow + 30 * DayTicks)
        ELSE IF HasPhrase(toks, <<"end", "of", "month">>) THEN Some(EndOfMonth(pynow))
        ELSE IF inM # 0 THEN Some(pynow + CountOffsetDays(toks, inM) * DayTicks)
        ELSE IF withinM # 0 THEN Some(pynow + CountOffsetDays(toks, withinM) * DayTicks)
        ELSE NULL

\* DeadlineExtractor.parse_with_dateparser: the external date parser.  The
\* vocabulary of the texts holds no absolute date, so it parses nothing.
parse_with_dateparser(toks, pynow) == NULL

\* relative parsing first, the date parser second
ParseEither(toks, pynow) ==
    LET r == parse_relative_date(toks, pynow)
    IN  IF r # NULL THEN r ELSE parse_with_dateparser(toks, pynow)

\* the tokens of toks from index i up to the first token of `stops`
TailFrom(toks, i, stops) ==
    LET ends == {j \in i..Len(toks) : toks[j] \in stops}
        last == IF ends = {} THEN Len(toks)
                ELSE (CHOOSE j \in ends : \A m \in ends : j <= m) - 1
    IN  SubSeq(toks, i, last)

DeadlineKeywords == <<"by", "before", "until", "due", "deadline">>

\* re.search(r'\b<kw>\s+(.*?)(?:\.|,|;|$)'): the leftmost keyword that is
\* followed by white space; "deadline" needs none and skips one ":"
PhraseMatch(toks, kw) ==
    LET hits == {i \in 1..Len(toks) :
                    /\ toks[i] = kw
                    /\ \/ kw = "deadline"
                       \/ i < Len(toks) /\ toks[i + 1] \notin Terminators \cup {":"}}
    IN  IF hits = {} THEN 0 ELSE CHOOSE i \in hits : \A m \in hits : i <= m

PhraseTail(toks, kw, stops) ==
    LET i == PhraseMatch(toks, kw)
        from == IF kw = "deadline" /\ i < Len(toks) /\ toks[i + 1] = ":"
                THEN i + 2 ELSE i + 1
    IN  TailFrom(toks, from, stops)

\* stage (a): the deadline phrases in pattern order, the first tail that parses
PhraseDeadline(toks, pynow) ==
    LET ok == {k \in 1..Len(DeadlineKeywords) :
                  /\ PhraseMatch(toks, DeadlineKeywords[k]) # 0
                  /\ ParseEither(PhraseTail(toks, DeadlineKeywords[k], Terminators),
                                 pynow) # NULL}
    IN  IF ok = {} THEN NULL
        ELSE LET k == CHOOSE k \in ok : \A m \in ok : k <= m
             IN  ParseEither(PhraseTail(toks, DeadlineKeywords[k], Terminators), pynow)

\* DeadlineExtractor.extract_date_mentions: the matches of self.date_patterns
\* that the vocabulary can produce, in pattern order then text order
RelativeWords == {"today", "tomorrow", "yesterday"}

date_mentions(toks) ==
    LET single == {i \in 1..Len(toks) : toks[i] \in RelativeWords}
        pair == {i \in 1..(Len(toks) - 1) :
                    toks[i] \in {"next", "this"} /\ toks[i + 1] \in {"week", "month", "year"}}
        cnt(kw) == {i \in 1..(Len(toks) - 2) :
                       /\ toks[i] = kw /\ toks[i + 1] \in Numerals
                       /\ toks[i + 2] \in DayUnits \cup WeekUnits \cup MonthUnits}
        Ordered(S, len) ==
            LET F[T \in SUBSET S] ==
                    IF T = {} THEN << >>
                    ELSE LET i == CHOOSE i \in T : \A m \in T : i <= m
                         IN  <<SubSeq(toks, i, i + len - 1)>> \o F[T \ {i}]
            IN  F[S]
        Phrases ==
            LET G[k \in 0..Len(DeadlineKeywords)] ==
                    IF k = 0 THEN << >>
                    ELSE G[k - 1] \o
                         (IF PhraseMatch(toks, DeadlineKeywords[k]) = 0 THEN << >>
                          ELSE <<PhraseTail(toks, DeadlineKeywords[k], {".", ","})>>)
            IN  G[Len(DeadlineKeywords)]
    IN  Ordered(single, 1) \o Ordered(pair, 2) \o Ordered(cnt("in"), 3)
          \o Ordered(cnt("within"), 3) \o Phrases

\* stage (b): the first mention that parses
MentionDeadline(toks, pynow) ==
    LET ms == date_mentions(toks)
        ok == {k \in 1..Len(ms) : ParseEither(ms[k], pynow) # NULL}
    IN  IF ok = {} THEN NULL
        ELSE ParseEither(ms[CHOOSE k \in ok : \A m \in ok : k <= m], pynow)

\* stage (c): a bare urgency keyword
KeywordDeadline(toks, pynow) ==
    LET ind == FirstIndicator(toks)
    IN  IF ind = 0 THEN NULL
        ELSE Some(pynow + UrgencyIndicators[ind].days * DayTicks)

\* DeadlineExtractor.extract_deadline_from_text / extract_deadlines: the
\* deadline as a local naive instant (the value whose isoformat() is stored)
extract_deadlines(toks, pynow) ==
    LET a == PhraseDeadline(toks, pynow)
        b == MentionDeadline(toks, pynow)
    IN  IF a # NULL THEN a
        ELSE IF b # NULL THEN b
        ELSE KeywordDeadline(toks, pynow)

Urgencies == {"overdue", "urgent", "high", "medium", "low"}

\* a deadline string that datetime.fromisoformat rejects
NotIso == <<"not", "iso">>

\* DeadlineExtractor.classify_urgency / get_deadline_urgency for a naive
\* deadline; timedelta.days is the floor of the difference in days
classify_urgency(deadline, pynow) ==
    IF deadline = NULL \/ deadline = NotIso THEN "low"
    ELSE LET days_until == (Val(deadline) - pynow) \div DayTicks
         IN  IF days_until < 0 THEN "overdue"
             ELSE IF days_until = 0 THEN "urgent"
             ELSE IF days_until <= 3 THEN "high"
             ELSE IF days_until <= 7 THEN "medium"
             ELSE "low"

\* the action sentences the pipeline's action detector hands on
ActionTexts ==
    { <<"send", "report", "by", "tomorrow">>,
      <<"fix", "bug", "asap">>,
      <<"review", "docs">>,
      <<"call", "client", "yesterday">> }

(* ------------------------------ the store ------------------------------ *)
Filenames == {"standup.mp3"}
AssigneeLists == {<< >>}

\* one row of table actions as save_action_to_db inserts it: status,
\* completed_at and notes take the column defaults
NewActionRow(meeting_file, action_text, assignees, deadline, deadline_urgency) ==
    [meeting_file |-> meeting_file,
     action_text |-> action_text,
     assignees |-> assignees,
     deadline |-> deadline,
     deadline_urgency |-> deadline_urgency,
     status |-> "open",
     completed_at |-> NULL,
     notes |-> NULL]

\* a history row that logs the status written where the status read belongs
HistoryRowLogsNewAsOld(action_id, old_status, new_status, changed_by, change_reason) ==
    [action_id |-> action_id,
     old_status |-> new_status,
     new_status |-> new_status,
     changed_by |-> changed_by,
     change_reason |-> change_reason,
     changed_at |-> SqlNow]

\* one row of table action_history; changed_at defaults to CURRENT_TIMESTAMP
HistoryRow(action_id, old_status, new_status, changed_by, change_reason) ==
    [action_id |-> action_id,
     old_status |-> old_status,
     new_status |-> new_status,
     changed_by |-> changed_by,
     change_reason |-> change_reason,
     changed_at |-> SqlNow]

\* an UPDATE that keeps the notes already stored when it is given none
MarkUpdateKeepsNotes(row, notes) ==
    [row EXCEPT !.status = "completed", !.completed_at = Some(SqlNow),
                !.notes = IF notes = NULL THEN row.notes ELSE notes]

\* UPDATE actions SET status = 'completed', completed_at = CURRENT_TIMESTAMP,
\* notes = ? WHERE id = ?
MarkUpdate(row, notes) ==
    [row EXCEPT !.status = "completed", !.completed_at = Some(SqlNow), !.notes = notes]

\* UPDATE actions SET status = ? WHERE id = ?
StatusUpdate(row, new_status) == [row EXCEPT !.status = new_status]

Exists(action_id) == action_id \in DOMAIN actions

\* the rows of a table function f without the keys in gone
Without(f, gone) == [k \in DOMAIN f \ gone |-> f[k]]

\* what the last call returned: ok is the boolean result (True for a call
\* that returns something else), n1 and n2 the two counts of a cleanup, arg
\* its days_old; n1 is also the HTTP status of the route's answer
NoRet == [ok |-> FALSE, arg |-> 0, n1 |-> 0, n2 |-> 0]
Ret(ok, arg, n1, n2) == [ok |-> ok, arg |-> arg, n1 |-> n1, n2 |-> n2]

IdleConn ==
    [pc |-> "idle", op |-> "none", action_id |-> 0, new_status |-> "open",
     changed_by |-> NULL, notes |-> NULL, reason |-> NULL, old_status |-> "open",
     upd |-> NULL, ins |-> NULL, result |-> "none"]

AllIdle == writer = 0 /\ \A c \in Callers : conn[c].pc = "idle"

\* the store after init_database, on a host whose local time is UTC
Init ==
    /\ now = 0
    /\ tz = 0
    /\ actions = << >>
    /\ nextActionId = 1
    /\ history = << >>
    /\ writer = 0
    /\ conn = [c \in Callers |-> IdleConn]
    /\ ret = NoRet
    /\ inp = NULL
    /\ out = NULL
    /\ meetings = << >>

(* ---------------------------- the handlers ----------------------------- *)
\* the clock advances to the next second: all that a run which reads the
\* clock only through SQLite can tell apart
TickSecond ==
    /\ now + TicksPerSec <= MaxTime
    /\ now' = now + TicksPerSec
    /\ UNCHANGED <<tz, actions, nextActionId, history, writer, conn, ret, inp, out, meetings>>

\* the clock advances by one tick
Tick ==
    /\ now < MaxTime
    /\ now' = now + 1
    /\ UNCHANGED <<tz, actions, nextActionId, history, writer, conn, ret, inp, out, meetings>>

\* tracker.save_actions_to_db: one save_action_to_db per item, which gets the
\* item's text, assignees and deadline and nothing else, so deadline_urgency
\* takes the parameter's default 'low'
SavedRows(items, meeting_file) ==
    [a \in DOMAIN actions \cup (nextActionId..(nextActionId + Len(items) - 1)) |->
        IF a \in DOMAIN actions THEN actions[a]
        ELSE LET item == items[a - nextActionId + 1]
             IN  NewActionRow(meeting_file, item.text, item.assignees, item.deadline, "low")]

\* routes.process_meeting_pipeline from step 4 on: the detected action
\* sentences get their assignees and deadline and are saved
process_meeting_pipeline(filename, texts, assignees) ==
    LET items == [i \in DOMAIN texts |->
                    [text |-> texts[i],
                     assignees |-> assignees,
                     deadline |-> extract_deadlines(texts[i], PyNow)]]
    IN  /\ writer = 0
        /\ nextActionId + Len(texts) - 1 <= MaxActions
        /\ actions' = SavedRows(items, filename)
        /\ nextActionId' = nextActionId + Len(texts)
        /\ ret' = Ret(TRUE, 0, 0, 0)
        /\ UNCHANGED <<now, tz, history, writer, conn, inp, out, meetings>>

\* mark_action_completed that treats an already completed action as done
MarkStoreSkipsCompleted(action_id, completed_by, notes) ==
    IF Exists(action_id) /\ actions[action_id].status # "completed"
    THEN /\ Len(history) < MaxHist
         /\ actions' = [actions EXCEPT ![action_id] = MarkUpdate(@, notes)]
         /\ history' = Append(history,
                HistoryRow(action_id, actions[action_id].status, "completed",
                           completed_by, Some("Marked as completed")))
    ELSE UNCHANGED <<actions, history>>

\* mark_action_completed without the early return for a missing row: the
\* UPDATE matches nothing and the INSERT still runs
MarkStoreNoLookup(action_id, completed_by, notes) ==
    /\ Len(history) < MaxHist
    /\ actions' = IF Exists(action_id)
                  THEN [actions EXCEPT ![action_id] = MarkUpdate(@, notes)]
                  ELSE actions
    /\ history' = Append(history,
           HistoryRow(action_id,
                      IF Exists(action_id) THEN actions[action_id].status ELSE "open",
                      "completed", completed_by, Some("Marked as completed")))

\* db.mark_action_completed, run alone: what it does to the store and
\* whether it returns True
MarkStore(action_id, completed_by, notes) ==
    IF Exists(action_id)
    THEN /\ Len(history) < MaxHist
         /\ actions' = [actions EXCEPT ![action_id] = MarkUpdate(@, notes)]
         /\ history' = Append(history,
                HistoryRow(action_id, actions[action_id].status, "completed",
                           completed_by, Some("Marked as completed")))
    ELSE UNCHANGED <<actions, history>>

mark_action_completed(action_id, completed_by, notes) ==
    /\ AllIdle
    /\ UNCHANGED <<now, tz, nextActionId, writer, conn, inp, out, meetings>>
    /\ MarkStore(action_id, completed_by, notes)
    /\ ret' = Ret(Exists(action_id), 0, 0, 0)

\* db.update_action_status, run alone
update_action_status(action_id, new_status, changed_by, reason) ==
    /\ AllIdle
    /\ UNCHANGED <<now, tz, nextActionId, writer, conn, inp, out, meetings>>
    /\ IF Exists(action_id)
       THEN /\ Len(history) < MaxHist
            /\ actions' = [actions EXCEPT ![action_id] = StatusUpdate(@, new_status)]
            /\ history' = Append(history,
                   HistoryRow(action_id, actions[action_id].status, new_status,
                              changed_by, reason))
       ELSE UNCHANGED <<actions, history>>
    /\ ret' = Ret(Exists(action_id), 0, 0, 0)

\* tracker.update_action_status: only 'completed' is acted on
tracker_update_action_status(action_id, status) ==
    /\ AllIdle
    /\ UNCHANGED <<now, tz, nextActionId, writer, conn, inp, out, meetings>>
    /\ IF status = "completed"
       THEN /\ MarkStore(action_id, NULL, NULL)
            /\ ret' = Ret(Exists(action_id), 0, 0, 0)
       ELSE /\ UNCHANGED <<actions, history>>
            /\ ret' = Ret(FALSE, 0, 0, 0)

\* routes.mark_action_complete: POST /actions/{action_id}/complete
mark_action_complete(action_id) ==
    /\ AllIdle
    /\ UNCHANGED <<now, tz, nextActionId, writer, conn, inp, out, meetings>>
    /\ MarkStore(action_id, NULL, NULL)
    /\ ret' = Ret(Exists(action_id), 0,
                  IF Exists(action_id) THEN 200 ELSE 404, 0)

\* db.cleanup_old_data: the two DELETEs and the counts it returns
CleanupActions(days_old) ==
    {a \in DOMAIN actions :
        /\ actions[a].status = "completed"
        /\ SqlLess(actions[a].completed_at, Some(SqlNowMinusDays(days_old)))}

CleanupKeepsHistory(h, days_old) == ~(h.changed_at < SqlNowMinusDays(days_old))

cleanup_old_data(days_old) ==
    LET gone == CleanupActions(days_old)
        kept == SelectSeq(history, LAMBDA h : CleanupKeepsHistory(h, days_old))
    IN  /\ AllIdle
        /\ UNCHANGED <<now, tz, nextActionId, writer, conn, inp, out, meetings>>
        /\ actions' = Without(actions, gone)
        /\ history' = kept
        /\ ret' = Ret(TRUE, days_old, Cardinality(gone),
                      Len(history) - Len(kept))

(* ------------------------------ queries -------------------------------- *)
\* db.get_overdue_actions: the ids its SELECT returns.  The stored deadline
\* is a local naive ISO string, which SQLite reads as UTC and to the second.
db_get_overdue_actions ==
    {a \in DOMAIN actions :
        /\ actions[a].status = "open"
        /\ actions[a].deadline # NULL
        /\ SqlDatetime(Val(actions[a].deadline)) < SqlNow}

\* tracker.get_overdue_actions: the ids it returns, comparing in Python
tracker_get_overdue_actions ==
    {a \in DOMAIN actions :
        /\ actions[a].status = "open"
        /\ actions[a].deadline # NULL
        /\ Val(actions[a].deadline) < PyNow}

(* --------------------------- specifications ---------------------------- *)
\* the action sentences of a run: none, one or two of `texts`
TextLists(texts) ==
    {<< >>} \cup {<<t>> : t \in texts} \cup {<<t, u>> : t \in texts, u \in texts}

\* sentences that name no deadline
PlainTexts == { <<"review", "docs">> }

\* The tracker: pipeline runs, status transitions through every entry
\* point, the clock.
Next ==
    \/ TickSecond
    \/ \E f \in Filenames, ts \in TextLists(PlainTexts), as \in AssigneeLists :
          AllIdle /\ process_meeting_pipeline(f, ts, as)
    \/ \E a \in ActionIds, by \in ChangedBy, n \in NoteValues :
          mark_action_completed(a, by, n)
    \/ \E a \in ActionIds, s \in Statuses, by \in ChangedBy :
          update_action_status(a, s, by, NULL)
    \/ \E a \in ActionIds, s \in Statuses : tracker_update_action_status(a, s)
    \/ \E a \in ActionIds : mark_action_complete(a)

Spec == Init /\ [][Next]_vars

\* Retention: pipeline runs, status transitions, cleanup, the clock.
NextCleanup ==
    \/ TickSecond
    \/ \E f \in Filenames, ts \in TextLists(PlainTexts), as \in AssigneeLists :
          AllIdle /\ process_meeting_pipeline(f, ts, as)
    \/ \E a \in ActionIds, by \in ChangedBy, n \in NoNotes :
          mark_action_completed(a, by, n)
    \/ \E a \in ActionIds, s \in Statuses, by \in ChangedBy :
          update_action_status(a, s, by, NULL)
    \/ \E d \in DaysOld : cleanup_old_data(d)

SpecCleanup == Init /\ [][NextCleanup]_vars

\* Deadlines and the overdue queries: pipeline runs over sentences with and
\* without a deadline, on hosts west of, at and east of UTC; completion
\* through the route; the clock.
InitZone ==
    /\ now = 0
    /\ tz \in TzOffsets
    /\ actions = << >>
    /\ nextActionId = 1
    /\ history = << >>
    /\ writer = 0
    /\ conn = [c \in Callers |-> IdleConn]
    /\ ret = NoRet
    /\ inp = NULL
    /\ out = NULL
    /\ meetings = << >>

NextDeadline ==
    \/ Tick
    \/ \E f \in Filenames, ts \in TextLists(ActionTexts), as \in AssigneeLists :
          AllIdle /\ process_meeting_pipeline(f, ts, as)
    \/ \E a \in ActionIds : mark_action_complete(a)

SpecDeadline == InitZone /\ [][NextDeadline]_vars

(* ------------------- status transitions, step by step ------------------ *)
(* One caller's mark_action_completed or update_action_status as the       *)
(* statements it sends over its own connection.  The SELECT runs outside   *)
(* any transaction.  Python's sqlite3 opens a transaction before the       *)
(* UPDATE, which takes the RESERVED lock; UPDATE and INSERT stay private   *)
(* to the connection until conn.commit().                                  *)
ConnOps == {"mark_action_completed", "update_action_status"}

Active == {c \in Callers : conn[c].pc # "idle"}

\* the call starts: get_db_connection()
Call(c, op, action_id, new_status, notes) ==
    /\ conn[c].pc = "idle"
    /\ Len(history) + Cardinality(Active) < MaxHist
    /\ conn' = [conn EXCEPT ![c] =
          [IdleConn EXCEPT !.pc = "select", !.op = op, !.action_id = action_id,
                           !.new_status = IF op = "mark_action_completed"
                                          THEN "completed" ELSE new_status,
                           !.notes = IF op = "mark_action_completed" THEN notes ELSE NULL,
                           !.reason = IF op = "mark_action_completed"
                                      THEN Some("Marked as completed") ELSE NULL]]
    /\ UNCHANGED <<now, tz, actions, nextActionId, history, writer, ret, inp, out, meetings>>

\* SELECT status FROM actions WHERE id = ?, and the early return
Select(c) ==
    /\ conn[c].pc = "select"
    /\ conn' = [conn EXCEPT ![c] =
          IF Exists(conn[c].action_id)
          THEN [@ EXCEPT !.pc = "update", !.old_status = actions[conn[c].action_id].status]
          ELSE [IdleConn EXCEPT !.result = "false"]]
    /\ UNCHANGED <<now, tz, actions, nextActionId, history, writer, ret, inp, out, meetings>>

\* the row the connection's UPDATE writes, from the row as committed
UpdatedRow(c) ==
    IF conn[c].op = "mark_action_completed"
    THEN MarkUpdate(actions[conn[c].action_id], conn[c].notes)
    ELSE StatusUpdate(actions[conn[c].action_id], conn[c].new_status)

\* the UPDATE on a connection in autocommit mode: it reaches the store at once
UpdateAutocommit(c) ==
    /\ conn[c].pc = "update"
    /\ writer = 0
    /\ writer' = c
    /\ actions' = IF Exists(conn[c].action_id)
                  THEN [actions EXCEPT ![conn[c].action_id] = UpdatedRow(c)]
                  ELSE actions
    /\ conn' = [conn EXCEPT ![c] = [@ EXCEPT !.pc = "insert"]]
    /\ UNCHANGED <<now, tz, nextActionId, history, ret, inp, out, meetings>>

\* UPDATE actions ...: opens the transaction; waits while another
\* connection holds the lock
Update(c) ==
    /\ conn[c].pc = "update"
    /\ writer = 0
    /\ writer' = c
    /\ conn' = [conn EXCEPT ![c] =
          [@ EXCEPT !.pc = "insert",
                    !.upd = IF Exists(conn[c].action_id) THEN Some(UpdatedRow(c)) ELSE NULL]]
    /\ UNCHANGED <<now, tz, actions, nextActionId, history, ret, inp, out, meetings>>

\* the wait for the lock times out: sqlite3.OperationalError, the call raises
Busy(c) ==
    /\ conn[c].pc = "update"
    /\ writer \notin {0, c}
    /\ conn' = [conn EXCEPT ![c] = [IdleConn EXCEPT !.result = "locked"]]
    /\ UNCHANGED <<now, tz, actions, nextActionId, history, writer, ret, inp, out, meetings>>

\* INSERT INTO action_history ..., with the status the SELECT read
Insert(c) ==
    /\ conn[c].pc = "insert"
    /\ conn' = [conn EXCEPT ![c] =
          [@ EXCEPT !.pc = "commit",
                    !.ins = Some(HistoryRow(conn[c].action_id, conn[c].old_status,
                                            conn[c].new_status, conn[c].changed_by,
                                            conn[c].reason))]]
    /\ UNCHANGED <<now, tz, actions, nextActionId, history, writer, ret, inp, out, meetings>>

\* conn.commit(): the transaction's writes reach the store together
Commit(c) ==
    /\ conn[c].pc = "commit"
    /\ writer = c
    /\ actions' = IF conn[c].upd # NULL
                  THEN [actions EXCEPT ![conn[c].action_id] = Val(conn[c].upd)]
                  ELSE actions
    /\ history' = Append(history, Val(conn[c].ins))
    /\ writer' = 0
    /\ conn' = [conn EXCEPT ![c] = [IdleConn EXCEPT !.result = "true"]]
    /\ UNCHANGED <<now, tz, nextActionId, ret, inp, out, meetings>>

\* the call raises after its UPDATE and before its commit completes (the
\* INSERT or the commit fails, the process dies): the connection is dropped
\* and SQLite rolls the open transaction back
Fail(c) ==
    /\ conn[c].pc \in {"insert", "commit"}
    /\ writer' = 0
    /\ conn' = [conn EXCEPT ![c] = [IdleConn EXCEPT !.result = "failed"]]
    /\ UNCHANGED <<now, tz, actions, nextActionId, history, ret, inp, out, meetings>>

\* Two callers' transitions interleaved, with pipeline runs and the clock.
NextConc ==
    \/ TickSecond
    \/ \E f \in Filenames, ts \in TextLists(PlainTexts), as \in AssigneeLists :
          writer = 0 /\ process_meeting_pipeline(f, ts, as)
    \/ \E c \in Callers, op \in ConnOps, a \in ActionIds, s \in Statuses, n \in NoNotes :
          Call(c, op, a, s, n)
    \/ \E c \in Callers : Select(c)
    \/ \E c \in Callers : Update(c)
    \/ \E c \in Callers : Busy(c)
    \/ \E c \in Callers : Insert(c)
    \/ \E c \in Callers : Commit(c)
    \/ \E c \in Callers : Fail(c)

SpecConc == Init /\ [][NextConc]_vars

(* ------------------------------- claims -------------------------------- *)
\* the calls that ask for a status transition of action a
MarkCall(a) ==
    \/ \E by \in ChangedBy, n \in NoteValues : mark_action_completed(a, by, n)
    \/ mark_action_complete(a)
    \/ tracker_update_action_status(a, "completed")

UpdateCall(a) ==
    \E s \in Statuses, by \in ChangedBy : update_action_status(a, s, by, NULL)

TransitionCall(a) == MarkCall(a) \/ UpdateCall(a)

Last(s) == s[Len(s)]

\* C1: every successful status transition (mark_action_completed,
\* update_action_status, the route, the tracker's wrapper, on an existing
\* action) appends exactly one history row for that action, with the status
\* before the call as old_status and the status after it as new_status; a
\* step of any other operation leaves the history as it is.
C1_OneHistoryRowPerTransition ==
    [][ /\ \A a \in DOMAIN actions :
             TransitionCall(a) =>
                /\ Len(history') = Len(history) + 1
                /\ SubSeq(history', 1, Len(history)) = history
                /\ Last(history').action_id = a
                /\ Last(history').old_status = actions[a].status
                /\ Last(history').new_status = actions'[a].status
        /\ history' # history => \E a \in DOMAIN actions : TransitionCall(a)
      ]_vars

\* C1 witness: two transitions of one action are logged, the second by
\* update_action_status from the status the first one set
C1_Witness ==
    /\ Len(history) = 2
    /\ history[1].action_id = history[2].action_id
    /\ history[1].old_status = "open" /\ history[1].new_status = "completed"
    /\ history[2].old_status = "completed" /\ history[2].new_status = "in_progress"
    /\ history[2].change_reason = NULL
    /\ ret.ok

\* C4: mark_action_completed (also through the route) on an action that is
\* already completed returns success, leaves it completed and appends exactly
\* one row completed -> completed.
C4_RepeatedCompletion ==
    [][ \A a \in ActionIds :
          ( /\ Exists(a)
            /\ actions[a].status = "completed"
            /\ \/ \E by \in ChangedBy, n \in NoteValues : mark_action_completed(a, by, n)
               \/ mark_action_complete(a) ) =>
             /\ ret'.ok
             /\ mark_action_complete(a) => ret'.n1 = 200
             /\ Exists(a)' /\ actions'[a].status = "completed"
             /\ Len(history') = Len(history) + 1
             /\ SubSeq(history', 1, Len(history)) = history
             /\ Last(history').action_id = a
             /\ Last(history').old_status = "completed"
             /\ Last(history').new_status = "completed"
      ]_vars

\* C4 witness: a second completion of the same action has been logged
C4_Witness ==
    /\ Len(history) = 2
    /\ history[1].action_id = history[2].action_id
    /\ history[1].new_status = "completed"
    /\ history[2].old_status = "completed" /\ history[2].new_status = "completed"
    /\ history[2].change_reason = Some("Marked as completed")
    /\ ret.ok

CompletedIds == {a \in DOMAIN actions : actions[a].status = "completed"}

\* C5: cleanup_old_data(0) deletes every completed action and
\* every history row, and deletes nothing when no action is completed.
C5_CleanupZeroDeletesAll ==
    [][ cleanup_old_data(0) =>
          /\ \A a \in CompletedIds : a \notin DOMAIN actions'
          /\ history' = << >>
          /\ CompletedIds = {} => (ret'.n1 = 0 /\ ret'.n2 = 0)
          /\ ret'.ok
      ]_vars

\* C6: cleanup_old_data(d) removes only completed actions older than d days
\* and only history rows of the actions it removes: actions that are not
\* completed and the history rows of the actions that remain are unchanged,
\* and the counts returned are the numbers of rows removed.
C6_CleanupFrame ==
    [][ \A d \in DaysOld :
          cleanup_old_data(d) =>
             /\ \A a \in DOMAIN actions \ DOMAIN actions' :
                   /\ actions[a].status = "completed"
                   /\ actions[a].completed_at # NULL
                   /\ Val(actions[a].completed_at) < SqlNowMinusDays(d)
             /\ \A a \in DOMAIN actions :
                   actions[a].status # "completed" =>
                      a \in DOMAIN actions' /\ actions'[a] = actions[a]
             /\ SelectSeq(history', LAMBDA h : h.action_id \in DOMAIN actions')
                  = SelectSeq(history, LAMBDA h : h.action_id \in DOMAIN actions')
             /\ ret'.n1 = Cardinality(DOMAIN actions) - Cardinality(DOMAIN actions')
             /\ ret'.n2 = Len(history) - Len(history')
      ]_vars

\* C7: once an action is completed, no step moves it to another
\* status.
C7_CompletedIsTerminal ==
    [][ \A a \in DOMAIN actions \cap DOMAIN actions' :
          actions[a].status = "completed" => actions'[a].status = "completed"
      ]_vars

\* C8: a transition asked for an action id that does not exist returns
\* False (the route answers 404) and changes neither table.
C8_NotFound ==
    [][ \A a \in ActionIds :
          ( /\ ~Exists(a)
            /\ \/ TransitionCall(a)
               \/ \E s \in Statuses : tracker_update_action_status(a, s) ) =>
             /\ ~ret'.ok
             /\ mark_action_complete(a) => ret'.n1 = 404
             /\ actions' = actions
             /\ history' = history
      ]_vars

\* C8 witness: the route answered 404 on a store that holds an action with
\* a logged transition
C8_Witness ==
    /\ ~ret.ok /\ ret.n1 = 404
    /\ actions # << >>
    /\ history # << >>

\* the history rows of action a, in insertion order
HistoryOf(a) == SelectSeq(history, LAMBDA h : h.action_id = a)

\* C2: with two callers' transitions interleaved, the history rows of an
\* action form a chain: the first row starts from the initial status open
\* and every later row's old_status is the row before's new_status.
C2_HistoryChain ==
    \A a \in ActionIds :
        LET rows == HistoryOf(a)
        IN  rows # << >> =>
               /\ rows[1].old_status = "open"
               /\ \A i \in 2..Len(rows) : rows[i].old_status = rows[i - 1].new_status

\* C3: in the committed store the update of an action row and the insert
\* of its history row appear in the same step or not at all: a step that
\* changes a row appends one history row for it with the row's new status,
\* a step that appends a history row leaves its action with that status
\* (and, for a completion, a completed_at), and a call that fails after its
\* UPDATE or waiting for the lock changes neither table.
C3_TransitionAtomic ==
    [][ /\ \A a \in DOMAIN actions \cap DOMAIN actions' :
             actions'[a] # actions[a] =>
                /\ Len(history') = Len(history) + 1
                /\ SubSeq(history', 1, Len(history)) = history
                /\ Last(history').action_id = a
                /\ Last(history').new_status = actions'[a].status
        /\ history' # history =>
                /\ Len(history') = Len(history) + 1
                /\ SubSeq(history', 1, Len(history)) = history
                /\ Last(history').action_id \in DOMAIN actions'
                /\ actions'[Last(history').action_id].status = Last(history').new_status
                /\ Last(history').change_reason = Some("Marked as completed") =>
                      actions'[Last(history').action_id].completed_at # NULL
        /\ \A c \in Callers :
             (Fail(c) \/ Busy(c)) => (actions' = actions /\ history' = history)
      ]_vars

\* C3 witness: a call failed after its UPDATE, and the store shows neither
\* the update nor a history row
C3_Witness ==
    /\ \E c \in Callers : conn[c].result = "failed"
    /\ actions # << >>
    /\ \A a \in DOMAIN actions : actions[a].status = "open" /\ actions[a].completed_at = NULL
    /\ history = << >>

\* C9: the stored urgency of every action is the tier classify_urgency
\* gives for its stored deadline at the current time.
C9_UrgencyMatchesDeadline ==
    \A a \in DOMAIN actions :
        actions[a].deadline_urgency = classify_urgency(actions[a].deadline, PyNow)

\* the open actions whose deadline is an instant before now
OverdueIds ==
    {a \in DOMAIN actions :
        /\ actions[a].status = "open"
        /\ actions[a].deadline # NULL
        /\ Val(actions[a].deadline) - tz < now}

\* C10: get_overdue_actions, in db and in tracker, returns exactly the open
\* actions with a deadline strictly earlier than now.
C10_OverdueExact ==
    /\ db_get_overdue_actions = OverdueIds
    /\ tracker_get_overdue_actions = OverdueIds

(* ------------------------ urgency of a deadline ------------------------ *)
\* the offsets, in days, of the deadlines classified
OffsetDays == {0 - 1, 0, 2, 5, 30}

\* (datetime.now() + timedelta(days=days)).isoformat(): a deadline is
\* produced from the clock as read now
MakeDeadline(days) ==
    /\ inp' = [deadline |-> Some(PyNow + days * DayTicks), days |-> Some(days),
               at |-> now]
    /\ out' = NULL
    /\ UNCHANGED <<now, tz, actions, nextActionId, history, writer, conn, ret, meetings>>

\* no deadline, or a string that is not an ISO date
MakeNoDeadline(d) ==
    /\ inp' = [deadline |-> d, days |-> NULL, at |-> now]
    /\ out' = NULL
    /\ UNCHANGED <<now, tz, actions, nextActionId, history, writer, conn, ret, meetings>>

\* get_deadline_urgency(deadline_str): classify_urgency reads the clock itself
get_deadline_urgency ==
    /\ inp # NULL
    /\ out' = [tier |-> classify_urgency(inp.deadline, PyNow), at |-> now]
    /\ UNCHANGED <<now, tz, actions, nextActionId, history, writer, conn, ret, inp, meetings>>

NextUrgency ==
    \/ Tick
    \/ \E days \in OffsetDays : MakeDeadline(days)
    \/ \E d \in {NULL, NotIso} : MakeNoDeadline(d)
    \/ get_deadline_urgency

SpecUrgency == InitZone /\ [][NextUrgency]_vars

\* the tier the rules give a deadline `days` days after the clock value it
\* was produced from
TierOfDays(days) ==
    IF days < 0 THEN "overdue"
    ELSE IF days = 0 THEN "urgent"
    ELSE IF days <= 3 THEN "high"
    ELSE IF days <= 7 THEN "medium"
    ELSE "low"

\* C11: a deadline produced as now + k days (k = -1, 0, 2, 5, 30) is
\* classified overdue, urgent, high, medium, low by the rules applied to k,
\* and an absent or unparseable deadline low, also when the clock has
\* advanced (by less than a day) between producing and classifying it.
C11_UrgencyTiers ==
    (out # NULL /\ out.at - inp.at < DayTicks) =>
        out.tier = IF inp.days = NULL THEN "low" ELSE TierOfDays(Val(inp.days))

(* ------------------- the deadline of an action sentence ---------------- *)
\* the words of the sentences a deadline is extracted from
Vocabulary == {"send", "by", "tomorrow", "asap", "soon", "next", "week"}

Sentences == UNION {[1..n -> Vocabulary] : n \in 0..MaxWords}

InitExtract ==
    /\ now = 0
    /\ tz \in TzOffsets
    /\ actions = << >>
    /\ nextActionId = 1
    /\ history = << >>
    /\ writer = 0
    /\ conn = [c \in Callers |-> IdleConn]
    /\ ret = NoRet
    /\ inp \in {[text |-> t] : t \in Sentences}
    /\ out = NULL
    /\ meetings = << >>

\* extract_deadlines(text), called when the local clock reads PyNow
extract_deadlines_call ==
    /\ out' = [deadline |-> extract_deadlines(inp.text, PyNow), at |-> PyNow]
    /\ UNCHANGED <<now, tz, actions, nextActionId, history, writer, conn, ret, inp, meetings>>

NextExtract ==
    \/ Tick
    \/ extract_deadlines_call

SpecExtract == InitExtract /\ [][NextExtract]_vars

\* the single-word urgency keywords
UrgencyWords == {"asap", "urgent", "soon", "eventually"}

\* the sentence without its urgency keywords
WithoutUrgencyWords(toks) == SelectSeq(toks, LAMBDA w : w \notin UrgencyWords)

\* C12: the deadline is what the phrase tails and the date mentions of the
\* sentence resolve to, and an urgency keyword decides it only when they
\* resolve to nothing: the result is the one the sentence gets with its
\* urgency keywords left out and, when that is none, now + the first
\* keyword's offset ("by tomorrow asap" is tomorrow, "asap" alone is now).
C12_PriorityOrder ==
    out # NULL =>
        LET dated == extract_deadlines(WithoutUrgencyWords(inp.text), out.at)
        IN  out.deadline = IF dated # NULL THEN dated
                           ELSE KeywordDeadline(inp.text, out.at)

(* --------------------- month phrases over the calendar ----------------- *)
MonthPhrases == { <<"next", "month">>, <<"end", "of", "month">> }

\* every local time of the years of Years
InitMonth ==
    /\ now \in 0..(YearStart(EpochYear + Cardinality(Years)) * DayTicks - 1)
    /\ tz = 0
    /\ actions = << >>
    /\ nextActionId = 1
    /\ history = << >>
    /\ writer = 0
    /\ conn = [c \in Callers |-> IdleConn]
    /\ ret = NoRet
    /\ inp \in {[text |-> t] : t \in MonthPhrases}
    /\ out = NULL
    /\ meetings = << >>

\* parse_relative_date(text), called when the local clock reads PyNow
parse_relative_date_call ==
    /\ out = NULL
    /\ out' = [deadline |-> parse_relative_date(inp.text, PyNow), at |-> PyNow]
    /\ UNCHANGED <<now, tz, actions, nextActionId, history, writer, conn, ret, inp, meetings>>

NextMonth == parse_relative_date_call

SpecMonth == InitMonth /\ [][NextMonth]_vars

\* the calendar month after month m of year y
FollowingMonth(y, m) ==
    IF m = 12 THEN [year |-> y + 1, month |-> 1] ELSE [year |-> y, month |-> m + 1]

\* C13: "end of month" is the last day of now's calendar month and "next
\* month" a date in the calendar month after now's, for every now.
C13_MonthBoundaries ==
    out # NULL =>
        LET today == DateOf(DayOf(out.at))
            got == DateOf(DayOf(Val(out.deadline)))
        IN  /\ out.deadline # NULL
            /\ inp.text = <<"end", "of", "month">> =>
                   /\ got.year = today.year /\ got.month = today.month
                   /\ got.day = DaysInMonth(today.year, today.month)
            /\ inp.text = <<"next", "month">> =>
                   /\ got.year = FollowingMonth(today.year, today.month).year
                   /\ got.month = FollowingMonth(today.year, today.month).month

(* -------------------- segment-speaker alignment ------------------------ *)
(* Times are seconds on a grid 0..MaxT.  A text is a sequence of          *)
(* characters.                                                             *)
\* str.strip(): without leading and trailing white space
RECURSIVE LStrip(_)
LStrip(s) == IF s # << >> /\ Head(s) = " " THEN LStrip(Tail(s)) ELSE s

RECURSIVE RStrip(_)
RStrip(s) ==
    IF s # << >> /\ s[Len(s)] = " " THEN RStrip(SubSeq(s, 1, Len(s) - 1)) ELSE s

Strip(s) == RStrip(LStrip(s))

\* Whisper's segments: text with its leading blank, start <= end, avg_logprob
AsrSegments ==
    {[text |-> <<" ", "o", "k">>, start |-> a, end |-> b, avg_logprob |-> 0 - 1] :
        a \in 0..MaxT, b \in 0..MaxT} \ {g \in
    {[text |-> <<" ", "o", "k">>, start |-> a, end |-> b, avg_logprob |-> 0 - 1] :
        a \in 0..MaxT, b \in 0..MaxT} : g.start > g.end}

\* transcripts: ordered, non-overlapping segments
Transcripts ==
    {t \in UNION {[1..n -> AsrSegments] : n \in 0..MaxSegs} :
        \A i \in 1..(Len(t) - 1) : t[i].end <= t[i + 1].start}

SpeakerLabels == {"SPEAKER_00", "SPEAKER_01"}

\* the diarization's turns: a label and an interval of positive length
Turns ==
    {u \in [speaker : SpeakerLabels, start : 0..MaxT, end : 0..MaxT] : u.start < u.end}

TurnLists == UNION {[1..n -> Turns] : n \in 0..MaxTurns}

Max(a, b) == IF a >= b THEN a ELSE b
Min(a, b) == IF a <= b THEN a ELSE b

\* overlap_duration of a segment and a speaker turn
Overlap(segment, speaker_info) ==
    Max(0, Min(segment.end, speaker_info.end) - Max(segment.start, speaker_info.start))

\* the scan that yields no label for a segment no turn overlaps
BestSpeakerNoDefault(segment, speakers) ==
    LET Scan[k \in 0..Len(speakers)] ==
            IF k = 0 THEN [best_speaker |-> "", max_overlap |-> 0]
            ELSE IF Overlap(segment, speakers[k]) > Scan[k - 1].max_overlap
                 THEN [best_speaker |-> speakers[k].speaker,
                       max_overlap |-> Overlap(segment, speakers[k])]
                 ELSE Scan[k - 1]
    IN  Scan[Len(speakers)].best_speaker

\* the scan in which a later turn with an equal overlap replaces the best
BestSpeakerLastWins(segment, speakers) ==
    LET Scan[k \in 0..Len(speakers)] ==
            IF k = 0 THEN [best_speaker |-> "Unknown", max_overlap |-> 0]
            ELSE IF /\ Overlap(segment, speakers[k]) >= Scan[k - 1].max_overlap
                    /\ Overlap(segment, speakers[k]) > 0
                 THEN [best_speaker |-> speakers[k].speaker,
                       max_overlap |-> Overlap(segment, speakers[k])]
                 ELSE Scan[k - 1]
    IN  Scan[Len(speakers)].best_speaker

\* the inner loop: best_speaker after the scan of the turns in list order
BestSpeaker(segment, speakers) ==
    LET Scan[k \in 0..Len(speakers)] ==
            IF k = 0 THEN [best_speaker |-> "Unknown", max_overlap |-> 0]
            ELSE IF Overlap(segment, speakers[k]) > Scan[k - 1].max_overlap
                 THEN [best_speaker |-> speakers[k].speaker,
                       max_overlap |-> Overlap(segment, speakers[k])]
                 ELSE Scan[k - 1]
    IN  Scan[Len(speakers)].best_speaker

\* ASRService.align_transcript_with_speakers
align_transcript_with_speakers(transcript, speakers) ==
    [i \in 1..Len(transcript) |->
        [text |-> Strip(transcript[i].text),
         start |-> transcript[i].start,
         end |-> transcript[i].end,
         speaker |-> IF speakers = << >> THEN "Speaker_1"
                     ELSE BestSpeaker(transcript[i], speakers),
         confidence |-> transcript[i].avg_logprob]]

InitAlign ==
    /\ now = 0
    /\ tz = 0
    /\ actions = << >>
    /\ nextActionId = 1
    /\ history = << >>
    /\ writer = 0
    /\ conn = [c \in Callers |-> IdleConn]
    /\ ret = NoRet
    /\ inp \in [transcript : Transcripts, speakers : TurnLists]
    /\ out = NULL
    /\ meetings = << >>

align_call ==
    /\ out = NULL
    /\ out' = [segments |-> align_transcript_with_speakers(inp.transcript, inp.speakers)]
    /\ UNCHANGED <<now, tz, actions, nextActionId, history, writer, conn, ret, inp, meetings>>

NextAlign == align_call

SpecAlign == InitAlign /\ [][NextAlign]_vars

\* C14: the alignment returns one segment per ASR segment, in order, with
\* start and end unchanged and a speaker label that is neither null nor
\* empty; with no speaker turns every segment carries the same label.
C14_AlignTotal ==
    out # NULL =>
        /\ Len(out.segments) = Len(inp.transcript)
        /\ \A i \in 1..Len(out.segments) :
              /\ out.segments[i].start = inp.transcript[i].start
              /\ out.segments[i].end = inp.transcript[i].end
              /\ out.segments[i].speaker \notin {"", NULL}
        /\ inp.speakers = << >> =>
              \A i, j \in 1..Len(out.segments) :
                 out.segments[i].speaker = out.segments[j].speaker

\* C14 witness: two segments aligned against an empty turn list
C14_Witness ==
    /\ out # NULL
    /\ Len(out.segments) = 2
    /\ inp.speakers = << >>

\* the greatest overlap of a segment with any turn
MaxOverlap(segment, speakers) ==
    CHOOSE v \in {Overlap(segment, speakers[k]) : k \in DOMAIN speakers} :
        \A k \in DOMAIN speakers : Overlap(segment, speakers[k]) <= v

\* the first turn, in list order, whose overlap is the greatest
FirstMaxTurn(segment, speakers) ==
    CHOOSE k \in DOMAIN speakers :
        /\ Overlap(segment, speakers[k]) = MaxOverlap(segment, speakers)
        /\ \A j \in 1..(k - 1) :
              Overlap(segment, speakers[j]) # MaxOverlap(segment, speakers)

\* C15: with a non-empty turn list every segment gets the speaker of the
\* first turn of greatest overlap, also when that overlap is 0.
C15_FirstMaxOverlap ==
    (out # NULL /\ inp.speakers # << >>) =>
        \A i \in 1..Len(out.segments) :
            out.segments[i].speaker =
                inp.speakers[FirstMaxTurn(inp.transcript[i], inp.speakers)].speaker

\* C15 amended: with a non-empty turn list a segment that some turn
\* overlaps gets the speaker of the first turn of greatest overlap, and a
\* segment that no turn overlaps gets the label Unknown.
C15_FirstMaxOverlapOrUnknown ==
    (out # NULL /\ inp.speakers # << >>) =>
        \A i \in 1..Len(out.segments) :
            out.segments[i].speaker =
                IF MaxOverlap(inp.transcript[i], inp.speakers) > 0
                THEN inp.speakers[FirstMaxTurn(inp.transcript[i], inp.speakers)].speaker
                ELSE "Unknown"

\* C15 witness: two turns of different speakers overlap a segment equally,
\* the segment has the first one's speaker; another segment is overlapped
\* by no turn and is labelled Unknown
C15_Witness ==
    /\ out # NULL
    /\ Len(inp.speakers) = 2
    /\ inp.speakers[1].speaker # inp.speakers[2].speaker
    /\ Len(out.segments) = 2
    /\ Overlap(inp.transcript[1], inp.speakers[1]) > 0
    /\ Overlap(inp.transcript[1], inp.speakers[1]) = Overlap(inp.transcript[1], inp.speakers[2])
    /\ out.segments[1].speaker = inp.speakers[1].speaker
    /\ MaxOverlap(inp.transcript[2], inp.speakers) = 0
    /\ out.segments[2].speaker = "Unknown"

(* ------------------------ merging segments ---------------------------- *)
\* the text of the i-th segment of a list: one word
SegmentWords == <<"alpha", "beta", "gamma", "delta", "epsilon">>

\* aligned segments in order of their start, start <= end; they may overlap
SegmentLists ==
    {l \in UNION {[1..n -> [speaker : SpeakerLabels, start : 0..MaxT, end : 0..MaxT]] :
                     n \in 0..MaxMerge} :
        /\ \A i \in DOMAIN l : l[i].start <= l[i].end
        /\ \A i \in 1..(Len(l) - 1) : l[i].start <= l[i + 1].start}

WithText(l) ==
    [i \in DOMAIN l |-> [text |-> <<SegmentWords[i]>>, start |-> l[i].start,
                         end |-> l[i].end, speaker |-> l[i].speaker]]

Gaps == 0..MaxGap

\* the test with the gap taken to the next segment's end
SameSpeakerSmallGapToEnd(current_segment, next_segment, max_gap) ==
    /\ current_segment.speaker = next_segment.speaker
    /\ next_segment.end - current_segment.end <= max_gap

\* the test with < for <=
SameSpeakerSmallGapStrict(current_segment, next_segment, max_gap) ==
    /\ current_segment.speaker = next_segment.speaker
    /\ next_segment.start - current_segment.end < max_gap

\* "same speaker and small gap"
SameSpeakerSmallGap(current_segment, next_segment, max_gap) ==
    /\ current_segment.speaker = next_segment.speaker
    /\ next_segment.start - current_segment.end <= max_gap

\* segments[k].copy(): a new dict, which aliases none of the list (alias 0)
SegmentCopy(segments, k) == [seg |-> segments[k], alias |-> 0]

\* the loop of merge_consecutive_segments over a non-empty list: after
\* segment i, the list merged so far, current_segment (with the index of the
\* input dict it aliases, 0 for none) and the input list as the caller
\* sees it
MergeLoop(segments, max_gap) ==
    LET Loop[i \in 1..Len(segments)] ==
            IF i = 1
            THEN [merged |-> << >>, current |-> SegmentCopy(segments, 1),
                  segments |-> segments]
            ELSE LET p == Loop[i - 1]
                     next_segment == p.segments[i]
                 IN  IF SameSpeakerSmallGap(p.current.seg, next_segment, max_gap)
                     THEN LET cur == [p.current.seg EXCEPT
                                         !.text = @ \o <<" ">> \o next_segment.text,
                                         !.end = next_segment.end]
                          IN  [merged |-> p.merged,
                               current |-> [p.current EXCEPT !.seg = cur],
                               segments |-> IF p.current.alias = 0 THEN p.segments
                                            ELSE [p.segments EXCEPT ![p.current.alias] = cur]]
                     ELSE [merged |-> Append(p.merged, p.current.seg),
                           current |-> SegmentCopy(p.segments, i),
                           segments |-> p.segments]
    IN  Loop[Len(segments)]

\* text_utils.merge_consecutive_segments: the list it returns
merge_consecutive_segments(segments, max_gap) ==
    IF segments = << >> THEN segments
    ELSE Append(MergeLoop(segments, max_gap).merged,
                MergeLoop(segments, max_gap).current.seg)

\* the caller's list after the call
SegmentsAfterMerge(segments, max_gap) ==
    IF segments = << >> THEN segments ELSE MergeLoop(segments, max_gap).segments

InitMerge ==
    /\ now = 0
    /\ tz = 0
    /\ actions = << >>
    /\ nextActionId = 1
    /\ history = << >>
    /\ writer = 0
    /\ conn = [c \in Callers |-> IdleConn]
    /\ ret = NoRet
    /\ inp \in {[segments |-> WithText(l), max_gap |-> g] : l \in SegmentLists, g \in Gaps}
    /\ out = NULL
    /\ meetings = << >>

merge_call ==
    /\ out = NULL
    /\ out' = [merged |-> merge_consecutive_segments(inp.segments, inp.max_gap),
               segments |-> SegmentsAfterMerge(inp.segments, inp.max_gap)]
    /\ UNCHANGED <<now, tz, actions, nextActionId, history, writer, conn, ret, inp, meetings>>

NextMerge == merge_call

SpecMerge == InitMerge /\ [][NextMerge]_vars

\* C16: merging the merged list again with the same gap changes nothing.
C16_MergeIdempotent ==
    out # NULL =>
        merge_consecutive_segments(out.merged, inp.max_gap) = out.merged

\* C16 witness: three segments were merged into two
C16_Witness ==
    /\ out # NULL
    /\ Len(inp.segments) = 3
    /\ Len(out.merged) = 2

\* segments i - 1 and i of a list are to be collapsed
Collapses(l, i, g) ==
    /\ l[i].speaker = l[i - 1].speaker
    /\ l[i].start - l[i - 1].end <= g

\* the indices at which a run of collapsed segments starts
RunStarts(l, g) == {i \in DOMAIN l : i = 1 \/ ~Collapses(l, i, g)}

\* the last index of the run that starts at b
RunEnd(l, g, b) ==
    CHOOSE e \in b..Len(l) :
        /\ \A i \in (b + 1)..e : i \notin RunStarts(l, g)
        /\ e = Len(l) \/ (e + 1) \in RunStarts(l, g)

\* the texts of l[b..e] joined by single spaces
RECURSIVE JoinTexts(_, _, _)
JoinTexts(l, b, e) ==
    IF b = e THEN l[b].text ELSE JoinTexts(l, b, e - 1) \o <<" ">> \o l[e].text

\* C17: the result has one segment per maximal run of consecutive segments
\* with the same speaker and a gap next.start - current.end <= max_gap, in
\* order; it has the run's first start, its last end, its texts joined by
\* single spaces; the input list is as it was.
C17_MergeRuns ==
    out # NULL =>
        LET l == inp.segments
            g == inp.max_gap
            starts == RunStarts(l, g)
        IN  /\ Len(out.merged) = Cardinality(starts)
            /\ \A b \in starts :
                  LET k == Cardinality({i \in starts : i <= b})
                      e == RunEnd(l, g, b)
                  IN  /\ out.merged[k].speaker = l[b].speaker
                      /\ out.merged[k].start = l[b].start
                      /\ out.merged[k].end = l[e].end
                      /\ out.merged[k].text = JoinTexts(l, b, e)
            /\ out.segments = inp.segments

\* C17 witness: of three segments of one speaker the first two, whose gap
\* is the threshold, were merged and the third, whose gap is larger, was not
C17_Witness ==
    /\ out # NULL
    /\ Len(inp.segments) = 3
    /\ \A i \in 1..3 : inp.segments[i].speaker = inp.segments[1].speaker
    /\ inp.max_gap > 0
    /\ inp.segments[2].start - inp.segments[1].end = inp.max_gap
    /\ inp.segments[3].start - inp.segments[2].end > inp.max_gap
    /\ Len(out.merged) = 2
    /\ out.merged[1].text = <<"alpha", " ", "beta">>
    /\ out.merged[1].end = inp.segments[2].end

(***************************************************************************)
(* Filler words.  A text is a sequence of characters.  remove_filler_words *)
(* lower-cases the text, splits it at white space, walks the words with an *)
(* index, drops a pair of words whose punctuation-stripped forms make a    *)
(* two-word filler, drops a word whose stripped form is a filler, keeps    *)
(* every other word as it stands and joins what is kept with one space.    *)
(***************************************************************************)
filler_words ==
    {
     <<"u", "m">>,
     <<"u", "h">>,
     <<"e", "r">>,
     <<"a", "h">>,
     <<"l", "i", "k", "e">>,
     <<"y", "o", "u", " ", "k", "n", "o", "w">>,
     <<"i", " ", "m", "e", "a", "n">>,
     <<"s", "o", "r", "t", " ", "o", "f">>,
     <<"k", "i", "n", "d", " ", "o", "f">>,
     <<"b", "a", "s", "i", "c", "a", "l", "l", "y">>,
     <<"a", "c", "t", "u", "a", "l", "l", "y">>,
     <<"l", "i", "t", "e", "r", "a", "l", "l", "y">>,
     <<"o", "b", "v", "i", "o", "u", "s", "l", "y">>,
     <<"w", "e", "l", "l">>,
     <<"s", "o">>,
     <<"r", "i", "g", "h", "t">>,
     <<"o", "k", "a", "y">>,
     <<"a", "l", "r", "i", "g", "h", "t">>,
     <<"y", "e", "a", "h">>,
     <<"y", "e", "s">>,
     <<"n", "o">>}

Punctuation == {".", ",", "!", "?", ";", ":"}

UpperLetters ==
    <<"A", "B", "C", "D", "E", "F", "G", "H", "I", "J", "K", "L", "M",
      "N", "O", "P", "Q", "R", "S", "T", "U", "V", "W", "X", "Y", "Z">>

LowerLetters ==
    <<"a", "b", "c", "d", "e", "f", "g", "h", "i", "j", "k", "l", "m",
      "n", "o", "p", "q", "r", "s", "t", "u", "v", "w", "x", "y", "z">>

LowerChar(c) ==
    IF \E i \in 1..26 : UpperLetters[i] = c
    THEN LowerLetters[CHOOSE i \in 1..26 : UpperLetters[i] = c]
    ELSE c

Lower(text) == [i \in 1..Len(text) |-> LowerChar(text[i])]

RECURSIVE SplitFrom(_, _, _)
SplitFrom(text, i, word) ==
    IF i > Len(text)
    THEN IF word = << >> THEN << >> ELSE <<word>>
    ELSE IF text[i] = " "
         THEN IF word = << >>
              THEN SplitFrom(text, i + 1, << >>)
              ELSE <<word>> \o SplitFrom(text, i + 1, << >>)
         ELSE SplitFrom(text, i + 1, Append(word, text[i]))

Split(text) == SplitFrom(text, 1, << >>)

RECURSIVE Join(_)
Join(words) ==
    IF words = << >> THEN << >>
    ELSE IF Len(words) = 1 THEN words[1]
    ELSE words[1] \o <<" ">> \o Join(Tail(words))

RECURSIVE LStripPunct(_)
LStripPunct(w) ==
    IF w # << >> /\ Head(w) \in Punctuation THEN LStripPunct(Tail(w)) ELSE w

RECURSIVE RStripPunct(_)
RStripPunct(w) ==
    IF w # << >> /\ w[Len(w)] \in Punctuation
    THEN RStripPunct(SubSeq(w, 1, Len(w) - 1))
    ELSE w

StripPunct(w) == RStripPunct(LStripPunct(w))

\* The loop of remove_filler_words from index i (1-based) to the end.
RECURSIVE FilterFrom(_, _)
FilterFrom(words, i) ==
    IF i > Len(words) THEN << >>
    ELSE LET word == StripPunct(words[i])
         IN  IF /\ i < Len(words)
                /\ word \o <<" ">> \o StripPunct(words[i + 1]) \in filler_words
             THEN FilterFrom(words, i + 2)
             ELSE IF word \notin filler_words
                  THEN <<words[i]>> \o FilterFrom(words, i + 1)
                  ELSE FilterFrom(words, i + 1)

remove_filler_words(text) == Join(FilterFrom(Split(Lower(text)), 1))

FillerVocabulary ==
    {<<"y", "o", "u">>, <<"k", "n", "o", "w">>, <<"U", "m">>,
     <<"g", "o">>, <<"K", "n", "o", "w", ".">>}

FillerTexts == {Join(ws) : ws \in UNION {[1..n -> FillerVocabulary] : n \in 0..MaxWords}}

InitFiller ==
    /\ now = 0
    /\ tz = 0
    /\ actions = << >>
    /\ nextActionId = 1
    /\ history = << >>
    /\ writer = 0
    /\ conn = [c \in Callers |-> IdleConn]
    /\ ret = NoRet
    /\ inp \in {[text |-> t] : t \in FillerTexts}
    /\ out = NULL
    /\ meetings = << >>

remove_filler_words_call ==
    /\ out = NULL
    /\ out' = [text |-> remove_filler_words(inp.text)]
    /\ UNCHANGED <<now, tz, actions, nextActionId, history, writer, conn, ret, inp, meetings>>

NextFiller == remove_filler_words_call

SpecFiller == InitFiller /\ [][NextFiller]_vars

\* C18: removing filler words from a text that remove_filler_words has
\* already produced changes nothing: the result is a fixed point.
C18_FillerIdempotent ==
    out # NULL => remove_filler_words(out.text) = out.text

(***************************************************************************)
(* Contractions.  expand_contractions walks the contraction table in its   *)
(* insertion order ("won't" is written twice in the source and keeps its   *)
(* first place) and, for each entry, replaces every occurrence of the key  *)
(* in the text by the expansion: re.sub scans from the left, matches the   *)
(* key without regard to letter case, and resumes after the replaced       *)
(* occurrence, so the text an entry sees is the text the earlier entries   *)
(* left.                                                                   *)
(***************************************************************************)
contractions ==
    <<
      [contraction |-> <<"w", "o", "n", "'", "t">>,
       expansion   |-> <<"w", "i", "l", "l", " ", "n", "o", "t">>],
      [contraction |-> <<"c", "a", "n", "'", "t">>,
       expansion   |-> <<"c", "a", "n", "n", "o", "t">>],
      [contraction |-> <<"n", "'", "t">>,
       expansion   |-> <<" ", "n", "o", "t">>],
      [contraction |-> <<"'", "r", "e">>,
       expansion   |-> <<" ", "a", "r", "e">>],
      [contraction |-> <<"'", "v", "e">>,
       expansion   |-> <<" ", "h", "a", "v", "e">>],
      [contraction |-> <<"'", "l", "l">>,
       expansion   |-> <<" ", "w", "i", "l", "l">>],
      [contraction |-> <<"'", "d">>,
       expansion   |-> <<" ", "w", "o", "u", "l", "d">>],
      [contraction |-> <<"'", "m">>,
       expansion   |-> <<" ", "a", "m">>],
      [contraction |-> <<"l", "e", "t", "'", "s">>,
       expansion   |-> <<"l", "e", "t", " ", "u", "s">>],
      [contraction |-> <<"t", "h", "a", "t", "'", "s">>,
       expansion   |-> <<"t", "h", "a", "t", " ", "i", "s">>],
      [contraction |-> <<"t", "h", "e", "r", "e", "'", "s">>,
       expansion   |-> <<"t", "h", "e", "r", "e", " ", "i", "s">>],
      [contraction |-> <<"h", "e", "r", "e", "'", "s">>,
       expansion   |-> <<"h", "e", "r", "e", " ", "i", "s">>],
      [contraction |-> <<"w", "h", "a", "t", "'", "s">>,
       expansion   |-> <<"w", "h", "a", "t", " ", "i", "s">>],
      [contraction |-> <<"w", "h", "e", "r", "e", "'", "s">>,
       expansion   |-> <<"w", "h", "e", "r", "e", " ", "i", "s">>],
      [contraction |-> <<"h", "o", "w", "'", "s">>,
       expansion   |-> <<"h", "o", "w", " ", "i", "s">>],
      [contraction |-> <<"i", "t", "'", "s">>,
       expansion   |-> <<"i", "t", " ", "i", "s">>],
      [contraction |-> <<"h", "e", "'", "s">>,
       expansion   |-> <<"h", "e", " ", "i", "s">>],
      [contraction |-> <<"s", "h", "e", "'", "s">>,
       expansion   |-> <<"s", "h", "e", " ", "i", "s">>],
      [contraction |-> <<"w", "e", "'", "r", "e">>,
       expansion   |-> <<"w", "e", " ", "a", "r", "e">>],
      [contraction |-> <<"t", "h", "e", "y", "'", "r", "e">>,
       expansion   |-> <<"t", "h", "e", "y", " ", "a", "r", "e">>],
      [contraction |-> <<"i", "'", "m">>,
       expansion   |-> <<"i", " ", "a", "m">>],
      [contraction |-> <<"y", "o", "u", "'", "r", "e">>,
       expansion   |-> <<"y", "o", "u", " ", "a", "r", "e">>],
      [contraction |-> <<"d", "o", "n", "'", "t">>,
       expansion   |-> <<"d", "o", " ", "n", "o", "t">>],
      [contraction |-> <<"d", "o", "e", "s", "n", "'", "t">>,
       expansion   |-> <<"d", "o", "e", "s", " ", "n", "o", "t">>],
      [contraction |-> <<"d", "i", "d", "n", "'", "t">>,
       expansion   |-> <<"d", "i", "d", " ", "n", "o", "t">>],
      [contraction |-> <<"h", "a", "v", "e", "n", "'", "t">>,
       expansion   |-> <<"h", "a", "v", "e", " ", "n", "o", "t">>],
      [contraction |-> <<"h", "a", "s", "n", "'", "t">>,
       expansion   |-> <<"h", "a", "s", " ", "n", "o", "t">>],
      [contraction |-> <<"h", "a", "d", "n", "'", "t">>,
       expansion   |-> <<"h", "a", "d", " ", "n", "o", "t">>],
      [contraction |-> <<"w", "o", "u", "l", "d", "n", "'", "t">>,
       expansion   |-> <<"w", "o", "u", "l", "d", " ", "n", "o", "t">>],
      [contraction |-> <<"s", "h", "o", "u", "l", "d", "n", "'", "t">>,
       expansion   |-> <<"s", "h", "o", "u", "l", "d", " ", "n", "o", "t">>],
      [contraction |-> <<"c", "o", "u", "l", "d", "n", "'", "t">>,
       expansion   |-> <<"c", "o", "u", "l", "d", " ", "n", "o", "t">>],
      [contraction |-> <<"m", "u", "s", "t", "n", "'", "t">>,
       expansion   |-> <<"m", "u", "s", "t", " ", "n", "o", "t">>]
    >>

\* re.sub(re.escape(key), exp, text, flags=re.IGNORECASE)
MatchAt(text, i, key) ==
    /\ i + Len(key) - 1 <= Len(text)
    /\ \A j \in 1..Len(key) : LowerChar(text[i + j - 1]) = LowerChar(key[j])

RECURSIVE SubstituteFrom(_, _, _, _)
SubstituteFrom(text, i, key, exp) ==
    IF i > Len(text) THEN << >>
    ELSE IF MatchAt(text, i, key)
         THEN exp \o SubstituteFrom(text, i + Len(key), key, exp)
         ELSE <<text[i]>> \o SubstituteFrom(text, i + 1, key, exp)

\* Replaces the leftmost occurrence only, as re.sub does with count=1.
SubstituteFirstOnly(text, key, exp) ==
    IF \E i \in 1..Len(text) : MatchAt(text, i, key)
    THEN LET i == CHOOSE i \in 1..Len(text) :
                      /\ MatchAt(text, i, key)
                      /\ \A h \in 1..(i - 1) : ~MatchAt(text, h, key)
         IN  SubSeq(text, 1, i - 1) \o exp \o SubSeq(text, i + Len(key), Len(text))
    ELSE text

Substitute(text, key, exp) == SubstituteFrom(text, 1, key, exp)

\* The patterns lo..hi of the dict applied one after the other, in its
\* order: first those of the lower half of the range, then, on the text
\* they leave, those of the upper half.
RECURSIVE ExpandFrom(_, _, _)
ExpandFrom(text, lo, hi) ==
    IF lo > hi THEN text
    ELSE IF lo = hi
         THEN Substitute(text, contractions[lo].contraction, contractions[lo].expansion)
    ELSE LET half == ExpandFrom(text, lo, (lo + hi) \div 2)
         IN  IF half = text THEN ExpandFrom(text, (lo + hi) \div 2 + 1, hi)
             ELSE ExpandFrom(half, (lo + hi) \div 2 + 1, hi)

expand_contractions(text) == ExpandFrom(text, 1, Len(contractions))

ContractionPieces ==
    {<<"'">>, <<" ">>, <<"n", "'", "t">>, <<"N", "'", "T">>,
     <<"'", "d">>, <<"I", "'", "m">>, <<"i", "t", "'", "s">>,
     <<"c", "a", "n">>, <<"m", "u", "s", "t", "n", "'", "t">>}

RECURSIVE Concat(_)
Concat(pieces) ==
    IF pieces = << >> THEN << >> ELSE Head(pieces) \o Concat(Tail(pieces))

ContractionTexts ==
    {Concat(ps) : ps \in UNION {[1..n -> ContractionPieces] : n \in 0..MaxPieces}}

InitContractions ==
    /\ now = 0
    /\ tz = 0
    /\ actions = << >>
    /\ nextActionId = 1
    /\ history = << >>
    /\ writer = 0
    /\ conn = [c \in Callers |-> IdleConn]
    /\ ret = NoRet
    /\ inp \in {[text |-> t] : t \in ContractionTexts}
    /\ out = NULL
    /\ meetings = << >>

expand_contractions_call ==
    /\ out = NULL
    /\ out' = [text |-> expand_contractions(inp.text)]
    /\ UNCHANGED <<now, tz, actions, nextActionId, history, writer, conn, ret, inp, meetings>>

NextContractions == expand_contractions_call

SpecContractions == InitContractions /\ [][NextContractions]_vars

\* C19: expanding the contractions of a text that expand_contractions has
\* already produced changes nothing, and no contraction key occurs in that
\* text.
C19_ExpandIdempotent ==
    out # NULL =>
        /\ expand_contractions(out.text) = out.text
        /\ \A k \in 1..Len(contractions) : \A i \in 1..Len(out.text) :
               ~MatchAt(out.text, i, contractions[k].contraction)

\* "'mustn't": the n't entry leaves "'must not", whose "'m" the later 'm
\* entry expands in the same pass.
C19_Witness ==
    /\ out # NULL
    /\ inp.text = <<"'", "m", "u", "s", "t", "n", "'", "t">>
    /\ out.text = <<" ", "a", "m", "u", "s", "t", " ", "n", "o", "t">>

(***************************************************************************)
(* Action candidates.  The classifier is outside the program: the model    *)
(* gives every sentence the probability predict_proba returns for it, in   *)
(* hundredths, and the length of the sentence once stripped.               *)
(* extract_action_items_from_segments walks the segments and their         *)
(* sentences in order, skips a sentence shorter than MinSentenceLen, and   *)
(* appends an action item for a sentence whose prediction has is_action    *)
(* set and a confidence above ActionThreshold.                             *)
(***************************************************************************)
Probabilities == {IsActionThreshold, IsActionThreshold + 1,
                  ActionThreshold, ActionThreshold + 1}

ScoredSentences ==
    [chars : {MinSentenceLen - 1, MinSentenceLen}, probability : Probabilities]

ScoredSegment(speaker, sentences) ==
    [speaker |-> speaker, start |-> 0, end |-> 1, sentences |-> sentences]

\* Either segments of one sentence each, or one segment of several sentences.
ScoredSegmentLists ==
    UNION {[1..n -> {ScoredSegment(sp, <<s>>) : sp \in SpeakerLabels, s \in ScoredSentences}]
               : n \in 0..MaxScored}
    \cup {<<ScoredSegment(sp, ss)>> :
              sp \in SpeakerLabels,
              ss \in UNION {[1..n -> ScoredSentences] : n \in 0..MaxScored}}

\* is_action set whenever the probability is above 0.7
predict_action_item_high(sentence) ==
    [is_action  |-> sentence.probability > ActionThreshold + 10,
     confidence |-> sentence.probability]

predict_action_item(sentence) ==
    [is_action  |-> sentence.probability > IsActionThreshold,
     confidence |-> sentence.probability]

ActionItem(segment, sentence, prediction) ==
    [text       |-> sentence,
     speaker    |-> segment.speaker,
     start_time |-> segment.start,
     end_time   |-> segment.end,
     confidence |-> prediction.confidence]

\* The inner loop over the sentences of one segment, from sentence j.
RECURSIVE ItemsOfSegment(_, _)
ItemsOfSegment(segment, j) ==
    IF j > Len(segment.sentences) THEN << >>
    ELSE LET sentence == segment.sentences[j]
         IN  IF sentence.chars < MinSentenceLen
             THEN ItemsOfSegment(segment, j + 1)
             ELSE LET prediction == predict_action_item(sentence)
                  IN  IF prediction.is_action /\ prediction.confidence > ActionThreshold
                      THEN <<ActionItem(segment, sentence, prediction)>>
                               \o ItemsOfSegment(segment, j + 1)
                      ELSE ItemsOfSegment(segment, j + 1)

RECURSIVE ItemsFrom(_, _)
ItemsFrom(segments, k) ==
    IF k > Len(segments) THEN << >>
    ELSE ItemsOfSegment(segments[k], 1) \o ItemsFrom(segments, k + 1)

extract_action_items_from_segments(segments) == ItemsFrom(segments, 1)

InitCandidates ==
    /\ now = 0
    /\ tz = 0
    /\ actions = << >>
    /\ nextActionId = 1
    /\ history = << >>
    /\ writer = 0
    /\ conn = [c \in Callers |-> IdleConn]
    /\ ret = NoRet
    /\ inp \in {[segments |-> l] : l \in ScoredSegmentLists}
    /\ out = NULL
    /\ meetings = << >>

extract_action_items_call ==
    /\ out = NULL
    /\ out' = [action_items |-> extract_action_items_from_segments(inp.segments)]
    /\ UNCHANGED <<now, tz, actions, nextActionId, history, writer, conn, ret, inp, meetings>>

NextCandidates == extract_action_items_call

SpecCandidates == InitCandidates /\ [][NextCandidates]_vars

\* The scored sentences (not skipped for their length) of all segments, in
\* order, each with the segment it belongs to.
RECURSIVE ScoredFrom(_, _, _)
ScoredFrom(segments, k, j) ==
    IF k > Len(segments) THEN << >>
    ELSE IF j > Len(segments[k].sentences) THEN ScoredFrom(segments, k + 1, 1)
    ELSE IF segments[k].sentences[j].chars < MinSentenceLen
         THEN ScoredFrom(segments, k, j + 1)
         ELSE <<[segment |-> segments[k], sentence |-> segments[k].sentences[j]]>>
                  \o ScoredFrom(segments, k, j + 1)

AboveThreshold(scored) == scored.sentence.probability > ActionThreshold

\* C20: the action items are exactly the scored sentences whose probability
\* is strictly greater than 0.6, in order and with that probability as the
\* confidence: 0.61 is accepted, 0.60 exactly is rejected, and the 0.5 test
\* behind is_action rejects nothing that the 0.6 test accepts.
C20_AcceptedIffAboveThreshold ==
    out # NULL =>
        LET accepted == SelectSeq(ScoredFrom(inp.segments, 1, 1), AboveThreshold)
        IN  /\ Len(out.action_items) = Len(accepted)
            /\ \A n \in 1..Len(accepted) :
                   /\ out.action_items[n].text = accepted[n].sentence
                   /\ out.action_items[n].confidence = accepted[n].sentence.probability
                   /\ out.action_items[n].speaker = accepted[n].segment.speaker
            /\ \A n \in 1..Len(out.action_items) :
                   out.action_items[n].confidence >= ActionThreshold + 1

\* One segment holding a sentence scored 0.60 and then one scored 0.61, both
\* long enough: only the second becomes an action item.
C20_Witness ==
    /\ out # NULL
    /\ Len(inp.segments) = 1
    /\ Len(inp.segments[1].sentences) = 2
    /\ inp.segments[1].sentences[1] =
           [chars |-> MinSentenceLen, probability |-> ActionThreshold]
    /\ inp.segments[1].sentences[2] =
           [chars |-> MinSentenceLen, probability |-> ActionThreshold + 1]
    /\ Len(out.action_items) = 1
    /\ out.action_items[1].confidence = ActionThreshold + 1

(***************************************************************************)
(* Detection.  detect_action_items returns [] for a transcript without     *)
(* segments, else the action items of extract_action_items_from_segments   *)
(* sorted in place by list.sort(key=confidence, reverse=True).  list.sort  *)
(* is stable, and stays stable with reverse=True: it is modelled as the    *)
(* insertion of each item, in list order, behind every item already placed *)
(* whose confidence is not smaller.                                        *)
(***************************************************************************)
\* places item behind the items of `sorted` whose confidence is smaller
InsertBeforeTies(sorted, item) ==
    LET k == Cardinality({i \in 1..Len(sorted) : sorted[i].confidence > item.confidence})
    IN  SubSeq(sorted, 1, k) \o <<item>> \o SubSeq(sorted, k + 1, Len(sorted))

InsertByConfidence(sorted, item) ==
    LET k == Cardinality({i \in 1..Len(sorted) : sorted[i].confidence >= item.confidence})
    IN  SubSeq(sorted, 1, k) \o <<item>> \o SubSeq(sorted, k + 1, Len(sorted))

RECURSIVE SortFrom(_, _, _)
SortFrom(items, n, sorted) ==
    IF n > Len(items) THEN sorted
    ELSE SortFrom(items, n + 1, InsertByConfidence(sorted, items[n]))

SortByConfidence(items) == SortFrom(items, 1, << >>)

detect_action_items(transcript_data) ==
    IF transcript_data.segments = << >> THEN << >>
    ELSE SortByConfidence(extract_action_items_from_segments(transcript_data.segments))

\* one sentence per segment, long enough to be scored; segment k starts at
\* second k - 1
DetectSentences ==
    [chars : {MinSentenceLen},
     probability : {ActionThreshold, ActionThreshold + 1, ActionThreshold + 2}]

DetectSegments(f) ==
    [k \in DOMAIN f |->
        [speaker |-> f[k].speaker, start |-> k - 1, end |-> k,
         sentences |-> <<f[k].sentence>>]]

DetectTranscripts ==
    {[segments |-> DetectSegments(f)] :
         f \in UNION {[1..n -> [speaker : SpeakerLabels, sentence : DetectSentences]] :
                          n \in 0..MaxDetect}}

InitDetect ==
    /\ now = 0
    /\ tz = 0
    /\ actions = << >>
    /\ nextActionId = 1
    /\ history = << >>
    /\ writer = 0
    /\ conn = [c \in Callers |-> IdleConn]
    /\ ret = NoRet
    /\ inp \in DetectTranscripts
    /\ out = NULL
    /\ meetings = << >>

detect_action_items_call ==
    /\ out = NULL
    /\ out' = [action_items |-> detect_action_items(inp)]
    /\ UNCHANGED <<now, tz, actions, nextActionId, history, writer, conn, ret, inp, meetings>>

NextDetect == detect_action_items_call

SpecDetect == InitDetect /\ [][NextDetect]_vars

\* C21: detect_action_items returns the accepted candidates, each once,
\* in descending order of confidence, and two candidates of equal
\* confidence in the order of their segments.
C21_SortedStable ==
    out # NULL =>
        LET accepted == extract_action_items_from_segments(inp.segments)
            got == out.action_items
        IN  /\ Len(got) = Len(accepted)
            /\ \A n \in 1..Len(accepted) :
                   Cardinality({i \in 1..Len(got) : got[i] = accepted[n]}) = 1
            /\ \A i, j \in 1..Len(got) :
                   i < j => /\ got[i].confidence >= got[j].confidence
                            /\ got[i].confidence = got[j].confidence =>
                                   got[i].start_time < got[j].start_time

\* Three accepted candidates, the first and the third of equal confidence
\* and the second of a higher one: the second comes first, then the first,
\* then the third.
C21_Witness ==
    /\ out # NULL
    /\ Len(inp.segments) = 3
    /\ inp.segments[1].sentences[1].probability = ActionThreshold + 1
    /\ inp.segments[2].sentences[1].probability = ActionThreshold + 2
    /\ inp.segments[3].sentences[1].probability = ActionThreshold + 1
    /\ Len(out.action_items) = 3
    /\ out.action_items[1].start_time = 1
    /\ out.action_items[2].start_time = 0
    /\ out.action_items[3].start_time = 2

(***************************************************************************)
(* Assignees.  A name is a sequence of characters.  map_to_speakers takes  *)
(* each assignee in turn: the first speaker equal to it without regard to  *)
(* case is its match with score 1.0; failing that, among the speakers that *)
(* contain it or are contained in it, the first of the largest similarity  *)
(* len(assignee) / max(len(speaker), len(assignee)).  The match replaces   *)
(* the assignee when it is a non-empty name and its score is above 0.5.    *)
(* A similarity is kept as the pair <<numerator, denominator>>.  The       *)
(* result is list(set(...)): every order of the distinct names can be      *)
(* returned.                                                               *)
(***************************************************************************)
IsSubstring(a, b) ==
    \E i \in 1..(Len(b) - Len(a) + 1) : SubSeq(b, i, i + Len(a) - 1) = a

\* x > y for two similarities
ScoreGreater(x, y) == x[1] * y[2] > y[1] * x[2]

\* the 0.5 of `best_score > 0.5`, and the scores 0 and 1.0
HalfScore == <<1, 2>>
ZeroScore == <<0, 1>>
FullScore == <<1, 1>>

Similarity(assignee, speaker) ==
    <<Len(assignee), IF Len(speaker) > Len(assignee) THEN Len(speaker) ELSE Len(assignee)>>

\* the loop "Try exact match first": NULL when it ends without a break
RECURSIVE ExactMatch(_, _, _)
ExactMatch(assignee, speakers, i) ==
    IF i > Len(speakers) THEN NULL
    ELSE IF Lower(assignee) = Lower(speakers[i]) THEN Some(speakers[i])
    ELSE ExactMatch(assignee, speakers, i + 1)

\* keeps a speaker of equal similarity that comes later in the roster
PartialStepLastWins(assignee, speaker, best) ==
    IF /\ \/ IsSubstring(Lower(assignee), Lower(speaker))
          \/ IsSubstring(Lower(speaker), Lower(assignee))
       /\ ~ScoreGreater(best.score, Similarity(assignee, speaker))
    THEN [match |-> Some(speaker), score |-> Similarity(assignee, speaker)]
    ELSE best

\* one round of the loop "Try partial match"
PartialStep(assignee, speaker, best) ==
    IF /\ \/ IsSubstring(Lower(assignee), Lower(speaker))
          \/ IsSubstring(Lower(speaker), Lower(assignee))
       /\ ScoreGreater(Similarity(assignee, speaker), best.score)
    THEN [match |-> Some(speaker), score |-> Similarity(assignee, speaker)]
    ELSE best

RECURSIVE PartialMatch(_, _, _, _)
PartialMatch(assignee, speakers, i, best) ==
    IF i > Len(speakers) THEN best
    ELSE PartialMatch(assignee, speakers, i + 1, PartialStep(assignee, speakers[i], best))

BestMatch(assignee, speakers, exact) ==
    IF exact # NULL THEN [match |-> exact, score |-> FullScore]
    ELSE PartialMatch(assignee, speakers, 1, [match |-> NULL, score |-> ZeroScore])

\* `if best_match and best_score > 0.5`
MappedFrom(assignee, best) ==
    IF /\ best.match # NULL
       /\ Val(best.match) # << >>
       /\ ScoreGreater(best.score, HalfScore)
    THEN Val(best.match)
    ELSE assignee

MappedName(assignee, speakers) ==
    MappedFrom(assignee, BestMatch(assignee, speakers, ExactMatch(assignee, speakers, 1)))

\* list(set(l)): the lists that hold each element of l once
ListOfSet(l) ==
    {f \in [1..Cardinality({l[i] : i \in DOMAIN l}) -> {l[i] : i \in DOMAIN l}] :
        \A i, j \in DOMAIN f : f[i] = f[j] => i = j}

map_to_speakers(assignees, speakers) ==
    ListOfSet([i \in DOMAIN assignees |-> MappedName(assignees[i], speakers)])

PersonNames ==
    {<<"J", "o">>, <<"j", "o">>, <<"J", "o", "e">>, <<"J", "O", "E", "Y">>,
     <<"A", "l">>}

NameLists == UNION {[1..n -> PersonNames] : n \in 0..MaxNames}

InitMap ==
    /\ now = 0
    /\ tz = 0
    /\ actions = << >>
    /\ nextActionId = 1
    /\ history = << >>
    /\ writer = 0
    /\ conn = [c \in Callers |-> IdleConn]
    /\ ret = NoRet
    /\ inp \in [assignees : NameLists, speakers : NameLists]
    /\ out = NULL
    /\ meetings = << >>

map_to_speakers_call ==
    /\ out = NULL
    /\ \E l \in map_to_speakers(inp.assignees, inp.speakers) : out' = [mapped |-> l]
    /\ UNCHANGED <<now, tz, actions, nextActionId, history, writer, conn, ret, inp, meetings>>

NextMap == map_to_speakers_call

SpecMap == InitMap /\ [][NextMap]_vars

\* the speakers that equal, contain or are contained in the candidate,
\* without regard to case
ExactIn(c, speakers) == {i \in DOMAIN speakers : Lower(speakers[i]) = Lower(c)}

PartialIn(c, speakers) ==
    {i \in DOMAIN speakers :
        \/ IsSubstring(Lower(c), Lower(speakers[i]))
        \/ IsSubstring(Lower(speakers[i]), Lower(c))}

\* len(c) / max(len(c), len(s)) > 1/2, and the same for two speakers
AboveHalf(c, s) == 2 * Len(c) > (IF Len(s) > Len(c) THEN Len(s) ELSE Len(c))

Closer(c, s, t) ==
    (IF Len(s) > Len(c) THEN Len(s) ELSE Len(c))
        < (IF Len(t) > Len(c) THEN Len(t) ELSE Len(c))

Expected(c, speakers) ==
    IF ExactIn(c, speakers) # {}
    THEN speakers[CHOOSE i \in ExactIn(c, speakers) : \A j \in ExactIn(c, speakers) : i <= j]
    ELSE LET best == {i \in PartialIn(c, speakers) :
                         \A j \in PartialIn(c, speakers) : ~Closer(c, speakers[j], speakers[i])}
         IN  IF best # {} /\ \A i \in best : AboveHalf(c, speakers[i])
             THEN speakers[CHOOSE i \in best : \A j \in best : i <= j]
             ELSE c

\* C22: each candidate maps to the first roster name that equals it without
\* regard to case; failing that to the first roster name of the largest
\* score len(candidate) / max(len(candidate), len(speaker)) among those
\* that contain it or are contained in it, when that score is strictly
\* above 0.5; and to itself otherwise.
C22_MapToSpeakers ==
    out # NULL =>
        {out.mapped[i] : i \in DOMAIN out.mapped}
            = {Expected(inp.assignees[i], inp.speakers) : i \in DOMAIN inp.assignees}

\* "Jo" against the roster <<"JOEY", "Joe">>: the score against "JOEY" is
\* exactly 0.5 and does not count, the score against "Joe" is 2/3, and "Jo"
\* becomes "Joe".
C22_Witness ==
    /\ out # NULL
    /\ inp.assignees = << <<"J", "o">> >>
    /\ inp.speakers = << <<"J", "O", "E", "Y">>, <<"J", "o", "e">> >>
    /\ out.mapped = << <<"J", "o", "e">> >>

(***************************************************************************)
(* extract_assignees.  The entity recognisers are outside the program: the *)
(* model is given the person entities BERT returns for the text, those     *)
(* spaCy returns, and the names the regular expressions find, each with    *)
(* `near`: whether the 50 characters around it hold an assignment phrase   *)
(* or an action verb.  spaCy is consulted when BERT returns nothing, the   *)
(* regular expressions when both return nothing.  Confidences are counted  *)
(* in hundredths.                                                          *)
(***************************************************************************)
EntityNames == {<<"J", "o">>, <<"A", "l">>}

BertEntities ==
    [text : EntityNames, confidence : {KeepConfidence, KeepConfidence + 1}, near : BOOLEAN]

SpacyEntities == [text : EntityNames, confidence : {SpacyConfidence}, near : BOOLEAN]

RegexEntities == [text : EntityNames, confidence : {RegexConfidence}, near : BOOLEAN]

\* extract_names_with_regex returns list(set(...)): no name twice
RegexLists ==
    {l \in UNION {[1..n -> RegexEntities] : n \in 0..MaxEntities} :
        \A i, j \in DOMAIN l : l[i].text = l[j].text => i = j}

EntityInputs ==
    {[bert |-> b, spacy |-> << >>, regex |-> << >>] :
        b \in UNION {[1..n -> BertEntities] : n \in 1..MaxEntities}}
    \cup {[bert |-> << >>, spacy |-> s, regex |-> << >>] :
        s \in UNION {[1..n -> SpacyEntities] : n \in 1..MaxEntities}}
    \cup {[bert |-> << >>, spacy |-> << >>, regex |-> r] : r \in RegexLists}

all_entities(found) ==
    IF found.bert # << >> THEN found.bert
    ELSE IF found.spacy # << >> THEN found.spacy
    ELSE found.regex

find_assignment_context(entities) ==
    [i \in DOMAIN entities |->
        [name |-> entities[i].text,
         confidence |-> entities[i].confidence,
         is_assigned |-> entities[i].near]]

Kept(assignment) == assignment.is_assigned \/ assignment.confidence > KeepConfidence

RECURSIVE NamesOf(_)
NamesOf(assignments) ==
    IF assignments = << >> THEN << >> ELSE <<Head(assignments).name>> \o NamesOf(Tail(assignments))

\* the lists extract_assignees can return
extract_assignees(found, speakers) ==
    IF speakers # << >>
    THEN map_to_speakers(NamesOf(SelectSeq(find_assignment_context(all_entities(found)), Kept)),
                         speakers)
    ELSE {NamesOf(SelectSeq(find_assignment_context(all_entities(found)), Kept))}

InitAssignees ==
    /\ now = 0
    /\ tz = 0
    /\ actions = << >>
    /\ nextActionId = 1
    /\ history = << >>
    /\ writer = 0
    /\ conn = [c \in Callers |-> IdleConn]
    /\ ret = NoRet
    /\ inp \in {[found |-> f, speakers |-> s] : f \in EntityInputs, s \in NameLists}
    /\ out = NULL
    /\ meetings = << >>

extract_assignees_call ==
    /\ out = NULL
    /\ \E l \in extract_assignees(inp.found, inp.speakers) : out' = [assignees |-> l]
    /\ UNCHANGED <<now, tz, actions, nextActionId, history, writer, conn, ret, inp, meetings>>

NextAssignees == extract_assignees_call

SpecAssignees == InitAssignees /\ [][NextAssignees]_vars

\* C23: the list extract_assignees returns never holds the same name twice,
\* whatever the text and the roster, an empty or absent roster included.
C23_NoDuplicateAssignee ==
    out # NULL =>
        \A i, j \in DOMAIN out.assignees : out.assignees[i] = out.assignees[j] => i = j

(***************************************************************************)
(* One pipeline run with its failures.  The capabilities a run calls are   *)
(* outside the program, so a run is given how each call ends:              *)
(*   scoring   "scored", or "raises" when the embedding model or the       *)
(*             classifier raises inside detect_action_items;               *)
(*   ner       per action: "names" (a person is found and kept), "none",   *)
(*             "bert_raises" (the BERT pipeline raises inside the try of   *)
(*             extract_entities_with_bert, which returns []), or           *)
(*             "spacy_raises" (BERT finds nothing and the spaCy call of    *)
(*             extract_entities_with_spacy, which has no try, raises);     *)
(*   deadline  per action: "date", "none", "dateparser_raises" (inside the *)
(*             try of parse_with_dateparser, which returns None), or       *)
(*             "overflow" ("in N days" with N so large that now +          *)
(*             timedelta(days=N) raises OverflowError in                   *)
(*             parse_relative_date).                                       *)
(* An exception that nothing catches leaves process_meeting_pipeline       *)
(* before step 6, the only step that writes.  `meetings` is table          *)
(* meetings: a run never writes it; save_meeting_to_db, which no handler   *)
(* calls, inserts a row unless the UNIQUE filename is taken.               *)
(***************************************************************************)
RunFilenames == {"1_standup.mp3", "2_standup.mp3"}

NerOutcomes == {"names", "none", "bert_raises", "spacy_raises"}

DeadlineOutcomes == {"date", "none", "dateparser_raises", "overflow"}

RunItems == UNION {[1..n -> [ner : NerOutcomes, deadline : DeadlineOutcomes]] : n \in 0..MaxActions}

\* extract_assignees for one action, when no exception leaves it
RunAssignees(ner) == IF ner = "names" THEN <<"jo">> ELSE << >>

\* extract_deadlines for one action, when no exception leaves it
RunDeadline(deadline) == IF deadline = "date" THEN Some(PyNow + DayTicks) ELSE NULL

\* steps 4 and 5 raise an exception that process_meeting_pipeline lets through
RunRaises(scoring, items) ==
    \/ scoring = "raises"
    \/ \E i \in DOMAIN items : items[i].ner = "spacy_raises" \/ items[i].deadline = "overflow"

RunResolved(items) ==
    [i \in DOMAIN items |->
        [text |-> <<"review", "docs">>,
         assignees |-> RunAssignees(items[i].ner),
         deadline |-> RunDeadline(items[i].deadline)]]

pipeline_run(filename, scoring, items) ==
    /\ writer = 0
    /\ nextActionId + Len(items) - 1 <= MaxActions
    /\ scoring = "raises" => items = << >>
    /\ inp' = [filename |-> filename, scoring |-> scoring, items |-> items]
    /\ IF RunRaises(scoring, items)
       THEN /\ out' = [completed |-> FALSE, first |-> nextActionId]
            /\ UNCHANGED <<actions, nextActionId>>
       ELSE /\ actions' = SavedRows(RunResolved(items), filename)
            /\ nextActionId' = nextActionId + Len(items)
            /\ out' = [completed |-> TRUE, first |-> nextActionId]
    /\ UNCHANGED <<now, tz, history, writer, conn, ret, meetings>>

save_meeting_to_db(filename) ==
    /\ writer = 0
    /\ \A k \in DOMAIN meetings : meetings[k].filename # filename
    /\ meetings' = Append(meetings, [filename |-> filename])
    /\ ret' = Ret(TRUE, Len(meetings) + 1, 0, 0)
    /\ UNCHANGED <<now, tz, actions, nextActionId, history, writer, conn, inp, out>>

\* the INSERT of save_meeting_to_db fails on the UNIQUE filename
save_meeting_to_db_fails(filename) ==
    /\ writer = 0
    /\ \E k \in DOMAIN meetings : meetings[k].filename = filename
    /\ ret' = Ret(FALSE, 0, 0, 0)
    /\ UNCHANGED <<now, tz, actions, nextActionId, history, writer, conn, inp, out, meetings>>

NextRun ==
    \/ \E f \in RunFilenames, s \in {"scored", "raises"}, l \in RunItems : pipeline_run(f, s, l)
    \/ \E f \in RunFilenames : save_meeting_to_db(f)
    \/ \E f \in RunFilenames : save_meeting_to_db_fails(f)

SpecRun == Init /\ [][NextRun]_vars

\* C24: a run whose action scoring fails writes no action row; a run whose
\* scoring succeeds completes whatever fails inside the resolution of an
\* action's assignees or deadline, and persists that action with no
\* assignee, or no deadline.
C24_FailurePolicy ==
    out # NULL =>
        /\ inp.scoring = "raises" =>
               /\ ~out.completed
               /\ nextActionId = out.first
        /\ inp.scoring = "scored" =>
               /\ out.completed
               /\ \A i \in DOMAIN inp.items :
                      /\ Exists(out.first + i - 1)
                      /\ actions[out.first + i - 1].meeting_file = inp.filename
                      /\ inp.items[i].ner \in {"bert_raises", "spacy_raises"} =>
                             actions[out.first + i - 1].assignees = << >>
                      /\ inp.items[i].deadline \in {"dateparser_raises", "overflow"} =>
                             actions[out.first + i - 1].deadline = NULL

\* C25: after a run has completed for a file, table meetings holds exactly
\* one row with that file's name.
C25_OneMeetingPerFile ==
    (out # NULL /\ out.completed) =>
        Cardinality({k \in DOMAIN meetings : meetings[k].filename = inp.filename}) = 1

(***************************************************************************)
(* Normalised segments.  process_transcript_segments passes the text of    *)
(* each segment through remove_filler_words, expand_contractions,          *)
(* standardize_dates and clean_text, skips the segment when the text that  *)
(* is left is empty, and else appends a copy of the segment with the new   *)
(* text and its sentences.  Every pattern of standardize_dates needs a     *)
(* digit; the texts of the model hold none, and it returns such a text as  *)
(* it is.  Sentences are split by the fallback of segment_sentences (no    *)
(* spaCy model): at runs of ".", "!" and "?".                              *)
(***************************************************************************)
standardize_dates(text) == text

\* re.sub(r'\s+', ' ', text)
RECURSIVE CollapseSpaces(_)
CollapseSpaces(text) ==
    IF text = << >> THEN << >>
    ELSE IF Head(text) = " " /\ Len(text) > 1 /\ text[2] = " " THEN CollapseSpaces(Tail(text))
    ELSE <<Head(text)>> \o CollapseSpaces(Tail(text))

\* re.sub(r'[.]{2,}', '.', text), and the same for "!" and "?"
RECURSIVE CollapseMark(_, _)
CollapseMark(text, mark) ==
    IF text = << >> THEN << >>
    ELSE IF Head(text) = mark /\ Len(text) > 1 /\ text[2] = mark
         THEN CollapseMark(Tail(text), mark)
    ELSE <<Head(text)>> \o CollapseMark(Tail(text), mark)

\* re.sub(r'\s+([.!?,:;])', r'\1', text)
RECURSIVE DropSpaceBeforeMark(_)
DropSpaceBeforeMark(text) ==
    IF text = << >> THEN << >>
    ELSE IF Head(text) = " " /\ Len(LStrip(text)) > 0 /\ Head(LStrip(text)) \in Punctuation
         THEN DropSpaceBeforeMark(LStrip(text))
    ELSE <<Head(text)>> \o DropSpaceBeforeMark(Tail(text))

IsUpper(c) == \E i \in 1..26 : UpperLetters[i] = c

\* re.sub(r'([.!?])\s*([A-Z])', r'\1 \2', text)
RECURSIVE SpaceAfterMark(_)
SpaceAfterMark(text) ==
    IF text = << >> THEN << >>
    ELSE IF /\ Head(text) \in {".", "!", "?"}
            /\ LStrip(Tail(text)) # << >>
            /\ IsUpper(Head(LStrip(Tail(text))))
         THEN <<Head(text), " ", Head(LStrip(Tail(text)))>>
                  \o SpaceAfterMark(Tail(LStrip(Tail(text))))
    ELSE <<Head(text)>> \o SpaceAfterMark(Tail(text))

clean_text(text) ==
    Strip(SpaceAfterMark(DropSpaceBeforeMark(
        CollapseMark(CollapseMark(CollapseMark(CollapseSpaces(text), "."), "!"), "?"))))

\* re.split(r'[.!?]+', text), each piece stripped, the empty ones dropped
RECURSIVE SplitSentences(_, _)
SplitSentences(text, piece) ==
    IF text = << >>
    THEN IF Strip(piece) = << >> THEN << >> ELSE <<Strip(piece)>>
    ELSE IF Head(text) \in {".", "!", "?"}
         THEN (IF Strip(piece) = << >> THEN << >> ELSE <<Strip(piece)>>)
                  \o SplitSentences(Tail(text), << >>)
    ELSE SplitSentences(Tail(text), Append(piece, Head(text)))

segment_sentences(text) == SplitSentences(text, << >>)

\* The four steps of the loop body, each one carried out on the value the
\* step before it has produced.
NormalizedText(text) ==
    CHOOSE cleaned \in
        {clean_text(dated) : dated \in
            {standardize_dates(expanded) : expanded \in
                {expand_contractions(plain) : plain \in {remove_filler_words(text)}}}} : TRUE

ProcessedSegment(segment, text) ==
    [speaker |-> segment.speaker, start |-> segment.start, end |-> segment.end,
     text |-> text, sentences |-> segment_sentences(text)]

RECURSIVE ProcessFrom(_, _)
ProcessFrom(segments, k) ==
    IF k > Len(segments) THEN << >>
    ELSE IF NormalizedText(segments[k].text) = << >> THEN ProcessFrom(segments, k + 1)
    ELSE <<ProcessedSegment(segments[k], NormalizedText(segments[k].text))>>
             \o ProcessFrom(segments, k + 1)

process_transcript_segments(segments) == ProcessFrom(segments, 1)

\* texts of one to MaxSegWords words; segment k runs from second k - 1 to k
SpokenTexts == {Join(ws) : ws \in UNION {[1..n -> FillerVocabulary] : n \in 1..MaxSegWords}}

SpokenSegments(texts) ==
    [k \in DOMAIN texts |->
        [speaker |-> "SPEAKER_00", start |-> k - 1, end |-> k, text |-> texts[k]]]

InitSegments ==
    /\ now = 0
    /\ tz = 0
    /\ actions = << >>
    /\ nextActionId = 1
    /\ history = << >>
    /\ writer = 0
    /\ conn = [c \in Callers |-> IdleConn]
    /\ ret = NoRet
    /\ inp \in {[segments |-> SpokenSegments(ts)] :
                   ts \in UNION {[1..n -> SpokenTexts] : n \in 0..MaxSegs}}
    /\ out = NULL
    /\ meetings = << >>

process_transcript_segments_call ==
    /\ out = NULL
    /\ out' = [segments |-> process_transcript_segments(inp.segments)]
    /\ UNCHANGED <<now, tz, actions, nextActionId, history, writer, conn, ret, inp, meetings>>

NextSegments == process_transcript_segments_call

SpecSegments == InitSegments /\ [][NextSegments]_vars

\* C26: process_transcript_segments returns one normalised segment for each
\* input segment, in the same order, a segment of nothing but filler words
\* included.
C26_OneSegmentPerInput ==
    out # NULL =>
        /\ Len(out.segments) = Len(inp.segments)
        /\ \A k \in DOMAIN out.segments :
               /\ out.segments[k].start = inp.segments[k].start
               /\ out.segments[k].end = inp.segments[k].end

(***************************************************************************)
(* Short sentences.  Here a sentence carries its characters; `chars` is    *)
(* len(sentence.strip()), the length extract_action_items_from_segments    *)
(* compares with MinSentenceLen.                                           *)
(***************************************************************************)
SentenceTexts ==
    {<<"a", " ", "b", " ", "c", " ", "d", " ", "e", " ", "f">>,
     <<"a", "b", "c", "d", "e", "f", "g", "h", "i", "j">>,
     <<"a", "b", "c", "d", "e", "f", "g", "h", "i">>,
     <<" ", "a", "b", "c", "d", "e", "f", "g", "h", "i", " ">>}

SpelledSentences ==
    {[text |-> t, chars |-> Len(Strip(t)), probability |-> p] :
        t \in SentenceTexts, p \in {ActionThreshold, ActionThreshold + 1}}

InitSpelled ==
    /\ now = 0
    /\ tz = 0
    /\ actions = << >>
    /\ nextActionId = 1
    /\ history = << >>
    /\ writer = 0
    /\ conn = [c \in Callers |-> IdleConn]
    /\ ret = NoRet
    /\ inp \in {[segments |-> <<ScoredSegment("SPEAKER_00", ss)>>] :
                   ss \in UNION {[1..n -> SpelledSentences] : n \in 0..MaxScored}}
    /\ out = NULL
    /\ meetings = << >>

SpecSpelled == InitSpelled /\ [][NextCandidates]_vars

NonWhitespace(text) == Cardinality({i \in DOMAIN text : text[i] # " "})

\* C27: no sentence with fewer than 10 non-whitespace characters becomes an
\* action item.
C27_ShortNeverCandidate ==
    out # NULL =>
        \A n \in DOMAIN out.action_items :
            NonWhitespace(out.action_items[n].text.text) >= MinSentenceLen

(* ----------------------- completion stamp and notes -------------------- *)
\* C28: in every state of the tracker an action has a completed_at exactly
\* when its status is completed.
C28_StampIffCompleted ==
    \A a \in DOMAIN actions :
        (actions[a].completed_at # NULL) <=> (actions[a].status = "completed")

\* C29: every row of action_history names an action that still exists,
\* cleanup_old_data included.
C29_HistoryRefersToAction ==
    \A k \in DOMAIN history : Exists(history[k].action_id)

\* C30: mark_action_completed(id, notes=n), called directly or through the
\* route (which passes no notes), sets the action's notes to exactly n, null
\* included, stamps completed_at with the time of the call, and leaves its
\* text, assignees, deadline and urgency, and every other action, as they
\* were.
C30_MarkFrame ==
    [][ \A a \in ActionIds, n \in NoteValues :
          ( /\ Exists(a)
            /\ \/ \E by \in ChangedBy : mark_action_completed(a, by, n)
               \/ (n = NULL /\ mark_action_complete(a)) ) =>
             /\ DOMAIN actions' = DOMAIN actions
             /\ actions'[a].notes = n
             /\ actions'[a].completed_at = Some(SqlNow)
             /\ actions'[a].status = "completed"
             /\ actions'[a].action_text = actions[a].action_text
             /\ actions'[a].assignees = actions[a].assignees
             /\ actions'[a].deadline = actions[a].deadline
             /\ actions'[a].deadline_urgency = actions[a].deadline_urgency
             /\ actions'[a].meeting_file = actions[a].meeting_file
             /\ \A b \in DOMAIN actions : b # a => actions'[b] = actions[b]
      ]_vars

\* C30 witness: an action completed twice, a second apart: it carries no
\* notes and the stamp of the second completion.
C30_Witness ==
    \E a \in DOMAIN actions :
        /\ Len(history) = 2
        /\ \A k \in 1..2 : /\ history[k].action_id = a
                           /\ history[k].change_reason = Some("Marked as completed")
        /\ history[1].changed_at < history[2].changed_at
        /\ actions[a].completed_at = Some(history[2].changed_at)
        /\ actions[a].notes = NULL

====
